---- MODULE Spec2Model ----
(***************************************************************************)
(* Constructor deconstruction and splitting for pattern exhaustiveness     *)
(* checking (rustc_mir_build::thir::pattern::deconstruct_pat).             *)
(*                                                                         *)
(* The module models the integer-range model (MaybeInfiniteInt, IntRange), *)
(* the slice model (SliceKind, Slice), the constructor algebra             *)
(* (Constructor::is_covered_by), the enumeration of a type's constructors  *)
(* (ConstructorSet::for_ty) and the column analysis                        *)
(* (ConstructorSet::split).                                                *)
(*                                                                         *)
(* Seven specifications are given:                                         *)
(*   SpecInt    IntRange::split applied to an arbitrary valid range        *)
(*   SpecSlice  Slice::split / Slice::is_covered_by on arbitrary slices    *)
(*   Spec       for_ty, from_pat of the column's patterns,                 *)
(*              ConstructorSet::split and IntRange::is_beyond_boundaries   *)
(*   SpecCover  Constructor::is_covered_by on arbitrary constructors       *)
(*   SpecOpaque concurrent calls of OpaqueId::new                          *)
(*   SpecArith  MaybeInfiniteInt::new_finite, plus_one and minus_one       *)
(*   SpecPat    DeconstructedPat::from_pat, specialize and reachability    *)
(***************************************************************************)
EXTENDS Integers, Sequences, FiniteSets, TLC

VARIABLES
    \* ---- SpecInt: one call of IntRange::split ----
    range_self,      \* `self` of IntRange::split
    column_ranges,   \* the `column_ranges` iterator, as the sequence it yields
    split_ranges,    \* the (Presence, IntRange) pairs the returned iterator yields
    int_pc,          \* "column" while the caller gathers the column, "split" after
    \* ---- SpecSlice: one call of Slice::split, then calls of Slice::is_covered_by ----
    slice_self,      \* `self` of Slice::split
    column_slices,   \* the `column_slices` iterator, as the sequence it yields
    split_slices,    \* the (Presence, Slice) pairs the returned iterator yields
    slice_pc,        \* "column" while the caller gathers the column, "split" after
    covered,         \* the last call of Slice::is_covered_by: its arguments and result
    \* ---- Spec: for_ty, from_pat of the column's patterns, ConstructorSet::split ----
    ty,              \* the type of the column (pcx.ty)
    cx,              \* the feature flags of the session and pcx.is_top_level
    ctor_set,        \* the ConstructorSet returned by for_ty
    OPAQUE_ID,       \* the static AtomicU32 of OpaqueId::new
    ctors,           \* the head constructors of the column, in row order
    present,         \* SplitConstructorSet::present
    missing,         \* SplitConstructorSet::missing
    pc,              \* "for_ty", then "column", then "split"
    \* ---- SpecCover: Constructor::is_covered_by on the constructors of one type ----
    cover,           \* the results of is_covered_by on each pair of `ctors`
    \* ---- SpecOpaque: threads calling OpaqueId::new on the shared OPAQUE_ID ----
    callers,         \* per thread: where it is in OpaqueId::new, the value fetched, calls left
    issued,          \* the ids returned: how many before the run, and those of the run
    \* ---- SpecArith: calls of the functions of MaybeInfiniteInt ----
    calc,            \* the last call: the function, its arguments and what it returned
    \* ---- SpecPat: a deconstructed pattern, specialized and marked reachable ----
    pattern_arena,   \* cx.pattern_arena: the DeconstructedPats allocated, in order
    pat_call         \* the last call on a pattern: the method, self, its argument and
                     \* what it returned

intVars == <<range_self, column_ranges, split_ranges, int_pc>>
sliceVars == <<slice_self, column_slices, split_slices, slice_pc, covered>>

\* The variables that for_ty, from_pat and ConstructorSet::split leave alone.
opaqueVars == <<callers, issued>>
arithVars == <<calc>>
patVars == <<pattern_arena, pat_call>>
restVars == <<cover, callers, issued, calc, pattern_arena, pat_call>>

ctorVars == <<ty, cx, ctor_set, OPAQUE_ID, ctors, present, missing, pc, cover,
             callers, issued, calc, pattern_arena, pat_call>>

vars == <<range_self, column_ranges, split_ranges, int_pc,
          slice_self, column_slices, split_slices, slice_pc, covered,
          ty, cx, ctor_set, OPAQUE_ID, ctors, present, missing, pc, cover,
             callers, issued, calc, pattern_arena, pat_call>>

(***************************************************************************)
(* Bounds of the model.                                                    *)
(***************************************************************************)
\* Largest finite boundary value drawn for the ranges of SpecInt.
MaxBdy == 2
\* Longest column handed to IntRange::split in SpecInt.
MaxColumnRanges == 3
\* Largest slice arity and array length drawn in SpecSlice.
MaxLen == 2
\* Longest column handed to Slice::split in SpecSlice.
MaxColumnSlices == 2

(***************************************************************************)
(* u128 arithmetic.  A u128 is kept as NumLimbs limbs of LimbBits bits,    *)
(* most significant limb first, so that the full width of the source's     *)
(* integers is retained.                                                   *)
(***************************************************************************)
NumLimbs == 8
LimbBits == 16
LimbBase == 65536

U128_ZERO == [i \in 1..NumLimbs |-> 0]
U128_MAX == [i \in 1..NumLimbs |-> LimbBase - 1]

\* The u128 with value n, for a small natural number n.
U128(n) ==
    [i \in 1..NumLimbs |->
        IF i = NumLimbs THEN n % LimbBase
        ELSE IF i = NumLimbs - 1 THEN (n \div LimbBase) % LimbBase
        ELSE 0]

U128Lt(a, b) ==
    \E i \in 1..NumLimbs : a[i] < b[i] /\ \A j \in 1..(i - 1) : a[j] = b[j]

\* Option<T>: None is <<>>, Some(x) is <<x>>.
None == <<>>
Some(x) == <<x>>

\* u128::checked_add(1)
checked_add_one(a) ==
    IF a = U128_MAX THEN None
    ELSE LET k == CHOOSE i \in 1..NumLimbs :
                    /\ a[i] # LimbBase - 1
                    /\ \A j \in (i + 1)..NumLimbs : a[j] = LimbBase - 1
         IN Some([i \in 1..NumLimbs |->
                    IF i < k THEN a[i] ELSE IF i = k THEN a[i] + 1 ELSE 0])

\* u128::checked_sub(1)
checked_sub_one(a) ==
    IF a = U128_ZERO THEN None
    ELSE LET k == CHOOSE i \in 1..NumLimbs :
                    /\ a[i] # 0
                    /\ \A j \in (i + 1)..NumLimbs : a[j] = 0
         IN Some([i \in 1..NumLimbs |->
                    IF i < k THEN a[i] ELSE IF i = k THEN a[i] - 1 ELSE LimbBase - 1])

(***************************************************************************)
(* MaybeInfiniteInt                                                        *)
(***************************************************************************)
NegInfinity == [tag |-> "NegInfinity", n |-> U128_ZERO]
Finite(n) == [tag |-> "Finite", n |-> n]
JustAfterMax == [tag |-> "JustAfterMax", n |-> U128_ZERO]
PosInfinity == [tag |-> "PosInfinity", n |-> U128_ZERO]

\* Position of a variant in the enum's declaration: the derived Ord compares it first.
Discriminant(x) ==
    CASE x.tag = "NegInfinity" -> 0
      [] x.tag = "Finite" -> 1
      [] x.tag = "JustAfterMax" -> 2
      [] x.tag = "PosInfinity" -> 3

\* #[derive(PartialOrd, Ord)] on MaybeInfiniteInt
MaybeInfiniteInt_lt(a, b) ==
    \/ Discriminant(a) < Discriminant(b)
    \/ a.tag = "Finite" /\ b.tag = "Finite" /\ U128Lt(a.n, b.n)

MaybeInfiniteInt_le(a, b) == a = b \/ MaybeInfiniteInt_lt(a, b)

max(a, b) == IF MaybeInfiniteInt_lt(a, b) THEN b ELSE a
min(a, b) == IF MaybeInfiniteInt_lt(b, a) THEN b ELSE a

\* The value reached by bug!(): the call never returns.
Bug == [tag |-> "bug", n |-> U128_ZERO]

minus_one(x) ==
    CASE x.tag = "Finite" ->
            (IF checked_sub_one(x.n) = None THEN Bug ELSE Finite(checked_sub_one(x.n)[1]))
      [] x.tag = "JustAfterMax" -> Finite(U128_MAX)
      [] OTHER -> x

\* A mutant of plus_one: the successor of u128::MAX saturates.
plus_one_saturating(x) ==
    CASE x.tag = "Finite" ->
            (IF checked_add_one(x.n) = None THEN x ELSE Finite(checked_add_one(x.n)[1]))
      [] x.tag = "JustAfterMax" -> Bug
      [] OTHER -> x

plus_one(x) ==
    CASE x.tag = "Finite" ->
            (IF checked_add_one(x.n) = None THEN JustAfterMax
             ELSE Finite(checked_add_one(x.n)[1]))
      [] x.tag = "JustAfterMax" -> Bug
      [] OTHER -> x

(***************************************************************************)
(* IntRange                                                                *)
(***************************************************************************)
IntRange(lo, hi) == [lo |-> lo, hi |-> hi]

\* The invariant of the type: lo < hi, lo is not PosInfinity, hi is not NegInfinity.
IntRangeValid(r) ==
    /\ MaybeInfiniteInt_lt(r.lo, r.hi)
    /\ r.lo # PosInfinity
    /\ r.hi # NegInfinity

is_subrange(self, other) ==
    MaybeInfiniteInt_le(other.lo, self.lo) /\ MaybeInfiniteInt_le(self.hi, other.hi)

\* A mutant of intersection: the column range is not clipped to `self`.
intersection_unclipped(self, other) ==
    IF MaybeInfiniteInt_lt(self.lo, other.hi) /\ MaybeInfiniteInt_lt(other.lo, self.hi)
    THEN Some(other)
    ELSE None

intersection(self, other) ==
    IF MaybeInfiniteInt_lt(self.lo, other.hi) /\ MaybeInfiniteInt_lt(other.lo, self.hi)
    THEN Some(IntRange(max(self.lo, other.lo), min(self.hi, other.hi)))
    ELSE None

\* column_ranges.filter_map(|r| self.intersection(&r)).flat_map(|r| [(r.lo, 1), (r.hi, -1)])
RECURSIVE boundaries(_, _)
boundaries(self, column) ==
    IF column = <<>> THEN <<>>
    ELSE LET r == intersection(self, Head(column))
         IN (IF r = None THEN <<>> ELSE << <<r[1].lo, 1>>, <<r[1].hi, -1>> >>)
                \o boundaries(self, Tail(column))

\* Ord on (MaybeInfiniteInt, isize): lexicographic.
boundary_lt(x, y) ==
    \/ MaybeInfiniteInt_lt(x[1], y[1])
    \/ x[1] = y[1] /\ x[2] < y[2]

\* Insert x into the sorted sequence s.
RECURSIVE sorted_insert(_, _)
sorted_insert(x, s) ==
    IF s = <<>> THEN <<x>>
    ELSE IF boundary_lt(Head(s), x) THEN <<Head(s)>> \o sorted_insert(x, Tail(s))
    ELSE <<x>> \o s

\* A mutant of sort_unstable: the boundaries stay in column order.
sort_unstable_skipped(s) == s

\* boundaries.sort_unstable(): equal elements are identical, so the result is unique.
RECURSIVE sort_unstable(_)
sort_unstable(s) ==
    IF s = <<>> THEN <<>> ELSE sorted_insert(Head(s), sort_unstable(Tail(s)))

Seen == "Seen"
Unseen == "Unseen"

\* A mutant of split_pairs: the delta at `bdy` is counted before the range that ends there.
RECURSIVE split_pairs_early_delta(_, _, _)
split_pairs_early_delta(events, prev_bdy, paren_counter) ==
    IF events = <<>> THEN <<>>
    ELSE LET bdy == Head(events)[1]
             delta == Head(events)[2]
             rest == split_pairs_early_delta(Tail(events), bdy, paren_counter + delta)
         IN IF prev_bdy # bdy
            THEN <<[presence |-> IF paren_counter + delta > 0 THEN Seen ELSE Unseen,
                    range |-> IntRange(prev_bdy, bdy)]>> \o rest
            ELSE rest

\* A mutant of split_pairs: the empty ranges between equal boundaries are not skipped.
RECURSIVE split_pairs_keep_empty(_, _, _)
split_pairs_keep_empty(events, prev_bdy, paren_counter) ==
    IF events = <<>> THEN <<>>
    ELSE LET bdy == Head(events)[1]
             delta == Head(events)[2]
         IN <<[presence |-> IF paren_counter > 0 THEN Seen ELSE Unseen,
               range |-> IntRange(prev_bdy, bdy)]>>
                \o split_pairs_keep_empty(Tail(events), bdy, paren_counter + delta)

\* The map / filter / map chain over the sorted boundaries: pairs of adjacent boundaries
\* with the count between them, empty ranges skipped, converted back to ranges.
RECURSIVE split_pairs(_, _, _)
split_pairs(events, prev_bdy, paren_counter) ==
    IF events = <<>> THEN <<>>
    ELSE LET bdy == Head(events)[1]
             delta == Head(events)[2]
             rest == split_pairs(Tail(events), bdy, paren_counter + delta)
         IN IF prev_bdy # bdy
            THEN <<[presence |-> IF paren_counter > 0 THEN Seen ELSE Unseen,
                    range |-> IntRange(prev_bdy, bdy)]>> \o rest
            ELSE rest

IntRange_split(self, column) ==
    split_pairs(sort_unstable(boundaries(self, column)) \o << <<self.hi, 0>> >>, self.lo, 0)

(***************************************************************************)
(* SliceKind and Slice                                                     *)
(***************************************************************************)
FixedLen(length) == [tag |-> "FixedLen", len |-> length]
VarLen(prefix, suffix) == [tag |-> "VarLen", prefix |-> prefix, suffix |-> suffix]

SliceKind_arity(kind) ==
    IF kind.tag = "FixedLen" THEN kind.len ELSE kind.prefix + kind.suffix

\* A mutant of covers_length: a variable-length pattern needs a strictly longer slice.
covers_length_strict(kind, other_len) ==
    IF kind.tag = "FixedLen" THEN kind.len = other_len
    ELSE kind.prefix + kind.suffix < other_len

covers_length(kind, other_len) ==
    IF kind.tag = "FixedLen" THEN kind.len = other_len
    ELSE kind.prefix + kind.suffix <= other_len

\* A mutant of Slice_new: the kind is kept as written.
Slice_new_unnormalised(array_len, kind) == [array_len |-> array_len, kind |-> kind]

Slice_new(array_len, kind) ==
    [array_len |-> array_len,
     kind |-> IF /\ array_len # None
                 /\ kind.tag = "VarLen"
                 /\ kind.prefix + kind.suffix >= array_len[1]
              THEN FixedLen(array_len[1])
              ELSE kind]

Slice_arity(slice) == SliceKind_arity(slice.kind)

Slice_is_covered_by(self, other) == covers_length(other.kind, Slice_arity(self))

\* usize::MAX, the initial value of min_var_len: no arity of the model reaches it.
usize_MAX == 2147483647

cmp_max(a, b) == IF a >= b THEN a ELSE b
cmp_min(a, b) == IF a <= b THEN a ELSE b

\* The loop over column_slices when `self` is VarLen; acc holds the loop's variables.
RECURSIVE scan_column_var_len(_, _, _)
scan_column_var_len(column, arity, acc) ==
    IF column = <<>> THEN acc
    ELSE LET kind == Head(column).kind
         IN scan_column_var_len(Tail(column), arity,
                IF kind.tag = "FixedLen"
                THEN [acc EXCEPT
                        !.max_fixed_len = cmp_max(@, kind.len),
                        !.seen_fixed_lens = IF arity <= kind.len THEN @ \cup {kind.len} ELSE @]
                ELSE [acc EXCEPT
                        !.max_prefix_len = cmp_max(@, kind.prefix),
                        !.max_suffix_len = cmp_max(@, kind.suffix),
                        !.min_var_len = cmp_min(@, kind.prefix + kind.suffix)])

\* The loop over column_slices when `self` is FixedLen.
RECURSIVE scan_column_fixed_len(_, _, _)
scan_column_fixed_len(column, arity, acc) ==
    IF column = <<>> THEN acc
    ELSE LET kind == Head(column).kind
         IN scan_column_fixed_len(Tail(column), arity,
                IF kind.tag = "FixedLen"
                THEN [acc EXCEPT
                        !.seen_fixed_lens = IF kind.len = arity THEN @ \cup {kind.len} ELSE @]
                ELSE [acc EXCEPT
                        !.min_var_len = cmp_min(@, kind.prefix + kind.suffix)])

\* A mutant of grow_max_slice: L is not raised above the fixed lengths of the column.
grow_max_slice_no_growth(acc) == VarLen(acc.max_prefix_len, acc.max_suffix_len)

\* `max_slice` after the loop: L = max(L, max_fixed_len + 1), prefix and suffix kept apart.
grow_max_slice(acc) ==
    IF acc.max_fixed_len + 1 >= acc.max_prefix_len + acc.max_suffix_len
    THEN VarLen(acc.max_fixed_len + 1 - acc.max_suffix_len, acc.max_suffix_len)
    ELSE VarLen(acc.max_prefix_len, acc.max_suffix_len)

\* A mutant of fixed_lens: the range includes hi.
fixed_lens_inclusive(lo, hi) == [i \in 1..(hi - lo + 1) |-> FixedLen(lo + i - 1)]

\* The range lo..hi (hi excluded) mapped through FixedLen.
RECURSIVE fixed_lens(_, _)
fixed_lens(lo, hi) ==
    IF lo >= hi THEN <<>> ELSE <<FixedLen(lo)>> \o fixed_lens(lo + 1, hi)

\* A mutant of emit_slices: only the fixed lengths seen in the column make a constructor
\* Seen.
emit_slices_fixed_only(self, kinds, min_var_len, seen_fixed_lens) ==
    [i \in 1..Len(kinds) |->
        [presence |-> IF SliceKind_arity(kinds[i]) \in seen_fixed_lens THEN Seen ELSE Unseen,
         slice |-> Slice_new(self.array_len, kinds[i])]]

\* The final map of Slice::split over smaller_lengths.map(FixedLen).chain(once(max_slice)).
emit_slices(self, kinds, min_var_len, seen_fixed_lens) ==
    [i \in 1..Len(kinds) |->
        [presence |-> IF \/ min_var_len <= SliceKind_arity(kinds[i])
                         \/ SliceKind_arity(kinds[i]) \in seen_fixed_lens
                      THEN Seen ELSE Unseen,
         slice |-> Slice_new(self.array_len, kinds[i])]]

Slice_split(self, column) ==
    LET arity == Slice_arity(self)
    IN IF self.kind.tag = "VarLen"
       THEN LET acc == scan_column_var_len(column, arity,
                            [max_prefix_len |-> self.kind.prefix,
                             max_suffix_len |-> self.kind.suffix,
                             max_fixed_len |-> 0,
                             min_var_len |-> usize_MAX,
                             seen_fixed_lens |-> {}])
                grown == grow_max_slice(acc)
                max_slice == IF self.array_len # None /\ SliceKind_arity(grown) >= self.array_len[1]
                             THEN FixedLen(self.array_len[1])
                             ELSE grown
                smaller_lengths == IF self.array_len # None THEN <<>>
                                   ELSE fixed_lens(Slice_arity(self), SliceKind_arity(max_slice))
            IN emit_slices(self, smaller_lengths \o <<max_slice>>,
                           acc.min_var_len, acc.seen_fixed_lens)
       ELSE LET acc == scan_column_fixed_len(column, arity,
                            [min_var_len |-> usize_MAX, seen_fixed_lens |-> {}])
            IN emit_slices(self, <<self.kind>>, acc.min_var_len, acc.seen_fixed_lens)

(***************************************************************************)
(* SpecSlice: Slice::split and Slice::is_covered_by on the slice           *)
(* constructors of one type.                                               *)
(***************************************************************************)
\* The array lengths drawn: None for a slice type, Some(n) for an array type.
ArrayLens == {None} \cup {Some(n) : n \in 0..MaxLen}

\* The kinds a pattern of the type can have: a pattern without `..` on an array has the
\* array's length, and a prefix and a suffix fit in the array.
SliceKinds(array_len) ==
    IF array_len = None
    THEN {FixedLen(n) : n \in 0..MaxLen}
            \cup {VarLen(p, s) : p \in 0..MaxLen, s \in 0..MaxLen}
    ELSE {FixedLen(array_len[1])}
            \cup {k \in {VarLen(p, s) : p \in 0..MaxLen, s \in 0..MaxLen} :
                    k.prefix + k.suffix <= array_len[1]}

\* The slice constructors of the type, as Slice::new makes them.
Slices(array_len) ==
    {Slice_new(array_len, k) : k \in {k \in SliceKinds(array_len) : SliceKind_arity(k) <= MaxLen}}

SliceIdle ==
    /\ slice_self = Slice_new(None, VarLen(0, 0))
    /\ column_slices = <<>>
    /\ split_slices = <<>>
    /\ slice_pc = "idle"
    /\ covered = None

OpaqueIdle ==
    /\ callers = <<>>
    /\ issued = <<>>

ArithIdle == calc = <<>>

PatIdle ==
    /\ pattern_arena = <<>>
    /\ pat_call = <<>>

CtorIdle ==
    /\ ty = [kind |-> "Never"]
    /\ cx = [precise_pointer_size_matching |-> FALSE, exhaustive_patterns |-> FALSE,
             is_top_level |-> FALSE]
    /\ ctor_set = [tag |-> "Uninhabited"]
    /\ OPAQUE_ID = <<0, 0>>
    /\ ctors = <<>>
    /\ present = <<>>
    /\ missing = <<>>
    /\ pc = "idle"
    /\ cover = <<>>
    /\ OpaqueIdle
    /\ ArithIdle
    /\ PatIdle

IntIdle ==
    /\ range_self = IntRange(NegInfinity, PosInfinity)
    /\ column_ranges = <<>>
    /\ split_ranges = <<>>
    /\ int_pc = "idle"

InitSlice ==
    /\ \E array_len \in ArrayLens : slice_self \in Slices(array_len)
    /\ column_slices = <<>>
    /\ split_slices = <<>>
    /\ slice_pc = "column"
    /\ covered = None
    /\ IntIdle
    /\ CtorIdle

\* The caller's iterator yields one more slice of the column.
PushColumnSlice ==
    /\ slice_pc = "column"
    /\ Len(column_slices) < MaxColumnSlices
    /\ \E s \in Slices(slice_self.array_len) : column_slices' = Append(column_slices, s)
    /\ UNCHANGED <<slice_self, split_slices, slice_pc, covered>>
    /\ UNCHANGED intVars
    /\ UNCHANGED ctorVars

\* self.split(column_slices), collected.
SplitSlice ==
    /\ slice_pc = "column"
    /\ split_slices' = Slice_split(slice_self, column_slices)
    /\ slice_pc' = "split"
    /\ UNCHANGED <<slice_self, column_slices, covered>>
    /\ UNCHANGED intVars
    /\ UNCHANGED ctorVars

\* The slice constructors at hand: `self`, the column's and the emitted ones.
SlicesAtHand ==
    {slice_self} \cup {column_slices[i] : i \in 1..Len(column_slices)}
                 \cup {split_slices[i].slice : i \in 1..Len(split_slices)}

\* a.is_covered_by(b) for two slice constructors of the type; one call is followed.
CallSliceIsCoveredBy ==
    /\ slice_pc = "split"
    /\ covered = None
    /\ \E a \in SlicesAtHand, b \in SlicesAtHand :
            covered' = Some([self |-> a, other |-> b, ret |-> Slice_is_covered_by(a, b)])
    /\ UNCHANGED <<slice_self, column_slices, split_slices, slice_pc>>
    /\ UNCHANGED intVars
    /\ UNCHANGED ctorVars

NextSlice == PushColumnSlice \/ SplitSlice \/ CallSliceIsCoveredBy

SpecSlice == InitSlice /\ [][NextSlice]_vars

(***************************************************************************)
(* Claims about Slice::split and Slice::is_covered_by                      *)
(***************************************************************************)
\* The wildcard slice of a type: Slice::new(array_len, VarLen(0, 0)).
WildcardSlice(array_len) == Slice_new(array_len, VarLen(0, 0))

SplitOfWildcardByEmptyColumn ==
    /\ slice_pc = "split"
    /\ column_slices = <<>>
    /\ slice_self = WildcardSlice(slice_self.array_len)

\* C9 as stated: with an empty column, Slice::split on the VarLen(0,0) wildcard returns
\* exactly [(Unseen, VarLen(0,0))], or [(Unseen, FixedLen(n))] when array_len = Some(n).
C9_AsStated ==
    SplitOfWildcardByEmptyColumn =>
        split_slices =
            IF slice_self.array_len = None
            THEN <<[presence |-> Unseen, slice |-> [array_len |-> None, kind |-> VarLen(0, 0)]]>>
            ELSE <<[presence |-> Unseen,
                    slice |-> [array_len |-> slice_self.array_len,
                               kind |-> FixedLen(slice_self.array_len[1])]]>>

\* C9 (amended): with an empty column, Slice::split on the VarLen(0,0) wildcard grows L
\* to 1: it returns [(Unseen, FixedLen(0)), (Unseen, VarLen(1,0))] for a slice type,
\* [(Unseen, FixedLen(n))] for an array of length n <= 1, and [(Unseen, VarLen(1,0))]
\* for an array of length n >= 2.
C9_EmptyColumnSplit ==
    SplitOfWildcardByEmptyColumn =>
        split_slices =
            IF slice_self.array_len = None
            THEN <<[presence |-> Unseen, slice |-> [array_len |-> None, kind |-> FixedLen(0)]],
                   [presence |-> Unseen, slice |-> [array_len |-> None, kind |-> VarLen(1, 0)]]>>
            ELSE IF slice_self.array_len[1] <= 1
            THEN <<[presence |-> Unseen,
                    slice |-> [array_len |-> slice_self.array_len,
                               kind |-> FixedLen(slice_self.array_len[1])]]>>
            ELSE <<[presence |-> Unseen,
                    slice |-> [array_len |-> slice_self.array_len, kind |-> VarLen(1, 0)]]>>

\* The wildcard of a slice type has been split by the empty column.
C9_Witness ==
    /\ SplitOfWildcardByEmptyColumn
    /\ slice_self = [array_len |-> None, kind |-> VarLen(0, 0)]
    /\ Len(split_slices) = 2

\* The wildcard of an array type of length 2 has been split by the empty column.
C9_WitnessArray ==
    /\ SplitOfWildcardByEmptyColumn
    /\ slice_self = [array_len |-> Some(2), kind |-> VarLen(0, 0)]
    /\ Len(split_slices) = 1

\* The lengths a slice constructor covers, as the claim states them: FixedLen(n) covers
\* only n, VarLen(p, s) covers every length >= p + s.
CoversLength(slice, k) ==
    IF slice.kind.tag = "FixedLen" THEN k = slice.kind.len
    ELSE k >= slice.kind.prefix + slice.kind.suffix

\* Lengths up to one more than any arity of the model: two constructors that differ in
\* the lengths they cover differ on one of these.
ProbedLengths == 0..(2 * MaxLen + 3)

\* C10: a.is_covered_by(b) is true exactly when every length covered by a is covered by b.
C10_CoverageIsLengthSubset ==
    covered # None =>
        (covered[1].ret
            <=> \A k \in ProbedLengths :
                    CoversLength(covered[1].self, k) => CoversLength(covered[1].other, k))

\* The same for the calls the matrix specialisation makes: `self` emitted by the split,
\* `other` a constructor of the column.
C10_CoverageOfEmittedByColumn ==
    (/\ covered # None
     /\ \E i \in 1..Len(split_slices) : split_slices[i].slice = covered[1].self
     /\ \E i \in 1..Len(column_slices) : column_slices[i] = covered[1].other)
        => (covered[1].ret
                <=> \A k \in ProbedLengths :
                        CoversLength(covered[1].self, k) => CoversLength(covered[1].other, k))

(***************************************************************************)
(* SpecInt: IntRange::split on any valid `self` and any column of valid    *)
(* ranges.                                                                 *)
(***************************************************************************)
\* The boundary values the ranges of SpecInt are drawn from.
IntBoundaries ==
    {NegInfinity, PosInfinity} \cup {Finite(U128(n)) : n \in 0..MaxBdy}

IntRanges ==
    {r \in {IntRange(lo, hi) : lo \in IntBoundaries, hi \in IntBoundaries} : IntRangeValid(r)}

InitInt ==
    /\ range_self \in IntRanges
    /\ column_ranges = <<>>
    /\ split_ranges = <<>>
    /\ int_pc = "column"
    /\ SliceIdle
    /\ CtorIdle

\* The caller's iterator yields one more range of the column.
PushColumnRange ==
    /\ int_pc = "column"
    /\ Len(column_ranges) < MaxColumnRanges
    /\ \E r \in IntRanges : column_ranges' = Append(column_ranges, r)
    /\ UNCHANGED <<range_self, split_ranges, int_pc>>
    /\ UNCHANGED sliceVars
    /\ UNCHANGED ctorVars

\* self.split(column_ranges), collected.
SplitIntRange ==
    /\ int_pc = "column"
    /\ split_ranges' = IntRange_split(range_self, column_ranges)
    /\ int_pc' = "split"
    /\ UNCHANGED <<range_self, column_ranges>>
    /\ UNCHANGED sliceVars
    /\ UNCHANGED ctorVars

NextInt == PushColumnRange \/ SplitIntRange

SpecInt == InitInt /\ [][NextInt]_vars

(***************************************************************************)
(* Claims about IntRange::split                                            *)
(***************************************************************************)
ColumnRangeSet == {column_ranges[i] : i \in 1..Len(column_ranges)}
EmittedRanges == {split_ranges[i].range : i \in 1..Len(split_ranges)}

\* C1: IntRange::split tiles `self` exactly: the emitted ranges are non-empty, pairwise
\* disjoint, in increasing order of lo, and their union is `self` (the first starts at
\* self.lo, the last ends at self.hi, each starts where the previous one ends).
C1_SplitTilesSelf ==
    int_pc = "split" =>
        /\ Len(split_ranges) >= 1
        /\ split_ranges[1].range.lo = range_self.lo
        /\ split_ranges[Len(split_ranges)].range.hi = range_self.hi
        /\ \A i \in 1..Len(split_ranges) :
                MaybeInfiniteInt_lt(split_ranges[i].range.lo, split_ranges[i].range.hi)
        /\ \A i \in 1..(Len(split_ranges) - 1) :
                split_ranges[i].range.hi = split_ranges[i + 1].range.lo
        /\ \A i, j \in 1..Len(split_ranges) :
                i < j => /\ MaybeInfiniteInt_lt(split_ranges[i].range.lo, split_ranges[j].range.lo)
                         /\ MaybeInfiniteInt_le(split_ranges[i].range.hi, split_ranges[j].range.lo)

\* A split of a range by a column with two overlapping ranges, one of them reaching
\* outside `self`, into at least three pieces.
C1_Witness ==
    /\ int_pc = "split"
    /\ Len(split_ranges) >= 3
    /\ \E c \in ColumnRangeSet : MaybeInfiniteInt_lt(c.lo, range_self.lo)
    /\ \E c, d \in ColumnRangeSet :
            /\ MaybeInfiniteInt_lt(c.lo, d.lo)
            /\ MaybeInfiniteInt_lt(d.lo, c.hi)
            /\ MaybeInfiniteInt_lt(c.hi, d.hi)

\* [e.lo, e.hi) and [c.lo, c.hi) have no point in common.
RangesDisjoint(e, c) ==
    MaybeInfiniteInt_le(e.hi, c.lo) \/ MaybeInfiniteInt_le(c.hi, e.lo)

\* [e.lo, e.hi) lies inside [c.lo, c.hi).
RangeInside(e, c) ==
    MaybeInfiniteInt_le(c.lo, e.lo) /\ MaybeInfiniteInt_le(e.hi, c.hi)

\* C2: IntRange::split never emits a range that straddles a column boundary: every
\* emitted range is a subrange of, or disjoint from, every column range.
C2_NoStraddle ==
    int_pc = "split" =>
        \A c \in ColumnRangeSet : \A e \in EmittedRanges :
            RangeInside(e, c) \/ RangesDisjoint(e, c)

\* A split in which a column range is cut in two by the boundary of another one.
C2_Witness ==
    /\ int_pc = "split"
    /\ \E c, d \in ColumnRangeSet :
            /\ MaybeInfiniteInt_lt(c.lo, d.lo)
            /\ MaybeInfiniteInt_lt(d.lo, c.hi)
            /\ IntRange(c.lo, d.lo) \in EmittedRanges
            /\ \E e \in EmittedRanges : e.lo = d.lo /\ RangeInside(e, c) /\ RangeInside(e, d)

\* C3: an emitted range is tagged Seen iff it lies inside at least one column range, and
\* Unseen otherwise, also when column ranges share a boundary value or are duplicated.
C3_SeenIffInsideColumnRange ==
    int_pc = "split" =>
        \A i \in 1..Len(split_ranges) :
            /\ split_ranges[i].presence \in {Seen, Unseen}
            /\ split_ranges[i].presence = Seen
                    <=> \E c \in ColumnRangeSet : RangeInside(split_ranges[i].range, c)

\* A split by a column of two ranges that meet at a shared boundary value (one ends where
\* the other starts), with a Seen and an Unseen range in the output.
C3_Witness ==
    /\ int_pc = "split"
    /\ Len(column_ranges) = 2
    /\ column_ranges[1].lo = column_ranges[2].hi
    /\ \E i, j \in 1..Len(split_ranges) :
            split_ranges[i].presence = Seen /\ split_ranges[j].presence = Unseen

\* A split by a column that holds the same range twice, with a Seen range in the output.
C3_WitnessDuplicate ==
    /\ int_pc = "split"
    /\ Len(column_ranges) = 2
    /\ column_ranges[1] = column_ranges[2]
    /\ \E i \in 1..Len(split_ranges) : split_ranges[i].presence = Seen

(***************************************************************************)
(* More u128 arithmetic, for new_finite and for_ty                         *)
(***************************************************************************)
\* Bitwise XOR of two limbs.
RECURSIVE LimbXor(_, _)
LimbXor(x, y) ==
    IF x = 0 THEN y
    ELSE IF y = 0 THEN x
    ELSE ((x + y) % 2) + 2 * LimbXor(x \div 2, y \div 2)

\* a ^ b on u128
U128Xor(a, b) == [i \in 1..NumLimbs |-> LimbXor(a[i], b[i])]

\* 1u128 << k
U128Shl1(k) ==
    [i \in 1..NumLimbs |-> IF i = NumLimbs - (k \div LimbBits) THEN 2 ^ (k % LimbBits) ELSE 0]

\* Size::truncate(u128::MAX) for a size of `bits` bits: the low `bits` bits set.
U128Truncate(bits) ==
    [i \in 1..NumLimbs |->
        IF (NumLimbs - i + 1) * LimbBits <= bits THEN LimbBase - 1
        ELSE IF (NumLimbs - i) * LimbBits < bits THEN 2 ^ (bits - (NumLimbs - i) * LimbBits) - 1
        ELSE 0]

(***************************************************************************)
(* Types and the queries of the context (MatchCheckCtxt, TyCtxt)           *)
(***************************************************************************)
TyBool == [kind |-> "Bool"]
TyChar == [kind |-> "Char"]
TyInt(bits, ptr_sized) == [kind |-> "Int", bits |-> bits, ptr_sized |-> ptr_sized]
TyUint(bits, ptr_sized) == [kind |-> "Uint", bits |-> bits, ptr_sized |-> ptr_sized]
\* len is Some(n) when the length evaluates, None otherwise.
TyArray(len, elem_uninhabited) ==
    [kind |-> "Array", len |-> len, elem_uninhabited |-> elem_uninhabited]
TySlice(elem_uninhabited) == [kind |-> "Slice", elem_uninhabited |-> elem_uninhabited]
\* An enum: its variants in declaration order, and whether it is a foreign
\* #[non_exhaustive] enum.
TyEnum(variants, foreign_non_exhaustive) ==
    [kind |-> "Adt", is_enum |-> TRUE, variants |-> variants,
     foreign_non_exhaustive |-> foreign_non_exhaustive,
     uninhabited |-> \A i \in 1..Len(variants) : ~variants[i].inhabited]
TyStruct(uninhabited) == [kind |-> "Adt", is_enum |-> FALSE, uninhabited |-> uninhabited]
TyTuple(uninhabited) == [kind |-> "Tuple", uninhabited |-> uninhabited]
TyRef(uninhabited) == [kind |-> "Ref", uninhabited |-> uninhabited]
TyNever == [kind |-> "Never"]
TyFloat(fty) == [kind |-> "Float", fty |-> fty]
TyStr == [kind |-> "Str"]

\* A variant of an enum, with the answers of the queries for_ty makes about it.
VariantDef(inhabited, is_unstable, is_doc_hidden, is_local) ==
    [inhabited |-> inhabited, is_unstable |-> is_unstable,
     is_doc_hidden |-> is_doc_hidden, is_local |-> is_local]

is_ptr_sized_integral(t) == t.kind \in {"Int", "Uint"} /\ t.ptr_sized

\* cx.is_uninhabited(ty), for the types for_ty asks it about: emptiness is revealed only
\* under the exhaustive_patterns feature.
is_uninhabited(c, t) ==
    /\ c.exhaustive_patterns
    /\ CASE t.kind \in {"Adt", "Tuple", "Ref"} -> t.uninhabited
         [] t.kind = "Never" -> TRUE
         [] OTHER -> FALSE

\* cx.is_uninhabited(sub_ty) for the element type of an array or slice.
is_uninhabited_elem(c, t) == c.exhaustive_patterns /\ t.elem_uninhabited

(***************************************************************************)
(* MaybeInfiniteInt and IntRange from bits                                 *)
(***************************************************************************)
signed_bias(t) ==
    IF t.kind = "Int" THEN U128Shl1(t.bits - 1) ELSE U128_ZERO

\* A mutant of new_finite: the bias is not applied.
new_finite_unbiased(t, bits) == Finite(bits)

new_finite(t, bits) == Finite(U128Xor(bits, signed_bias(t)))

\* PatRangeBoundary
PatNegInfinity == [tag |-> "NegInfinity", bits |-> U128_ZERO]
PatFinite(bits) == [tag |-> "Finite", bits |-> bits]
PatPosInfinity == [tag |-> "PosInfinity", bits |-> U128_ZERO]

from_pat_range_bdy(bdy, t) ==
    CASE bdy.tag = "NegInfinity" -> NegInfinity
      [] bdy.tag = "Finite" -> new_finite(t, bdy.bits)
      [] bdy.tag = "PosInfinity" -> PosInfinity

from_bits(t, bits) == IntRange(new_finite(t, bits), plus_one(new_finite(t, bits)))

Included == "Included"
Excluded == "Excluded"

\* A mutant of from_range: the end of the range is taken as excluded whatever `end` says.
from_range_end_ignored(lo, hi, end) ==
    IF ~MaybeInfiniteInt_lt(lo, hi) THEN IntRange(Bug, Bug) ELSE IntRange(lo, hi)

\* IntRange::from_range; lo >= hi is bug!().
from_range(lo, hi, end) ==
    LET hi1 == IF end = Included THEN plus_one(hi) ELSE hi
    IN IF ~MaybeInfiniteInt_lt(lo, hi1) THEN IntRange(Bug, Bug) ELSE IntRange(lo, hi1)

(***************************************************************************)
(* IeeeFloat, reduced to NaN and a few ordered numbers                     *)
(***************************************************************************)
FloatNum(v) == [nan |-> FALSE, v |-> v]
FloatNaN == [nan |-> TRUE, v |-> 0]

\* IeeeFloat::partial_cmp: None when an operand is NaN.
partial_cmp(a, b) ==
    IF a.nan \/ b.nan THEN None
    ELSE IF a.v < b.v THEN Some("Less")
    ELSE IF a.v = b.v THEN Some("Equal")
    ELSE Some("Greater")

\* PartialOrd::ge
ge(a, b) == partial_cmp(a, b) \in {Some("Greater"), Some("Equal")}

(***************************************************************************)
(* Constructor                                                             *)
(***************************************************************************)
Single == [tag |-> "Single"]
Variant(idx) == [tag |-> "Variant", idx |-> idx]
Bool(b) == [tag |-> "Bool", b |-> b]
CtorIntRange(range) == [tag |-> "IntRange", range |-> range]
F32Range(lo, hi, end) == [tag |-> "F32Range", lo |-> lo, hi |-> hi, end |-> end]
F64Range(lo, hi, end) == [tag |-> "F64Range", lo |-> lo, hi |-> hi, end |-> end]
Str(val) == [tag |-> "Str", val |-> val]
CtorSlice(slice) == [tag |-> "Slice", slice |-> slice]
Opaque(id) == [tag |-> "Opaque", id |-> id]
Or == [tag |-> "Or"]
Wildcard == [tag |-> "Wildcard"]
NonExhaustive == [tag |-> "NonExhaustive"]
Hidden == [tag |-> "Hidden"]
Missing == [tag |-> "Missing"]

is_wildcard(ctor) == ctor.tag = "Wildcard"

\* The outcome of a call that may panic.
Returns(b) == [panic |-> FALSE, ret |-> b]
SpanBug == [panic |-> TRUE, ret |-> FALSE]

\* The F32Range / F64Range arms of is_covered_by.
float_range_is_covered_by(self, other) ==
    /\ ge(self.lo, other.lo)
    /\ CASE partial_cmp(self.hi, other.hi) = Some("Less") -> TRUE
         [] partial_cmp(self.hi, other.hi) = Some("Equal") -> other.end = self.end
         [] OTHER -> FALSE

\* A mutant of is_covered_by: the arm `(Opaque(..), _) | (_, Opaque(..)) => false` is
\* forgotten, so an Opaque against another kind of constructor falls to span_bug!.
is_covered_by_no_opaque_arm(self, other) ==
    IF self.tag = "Wildcard" THEN SpanBug
    ELSE IF other.tag = "Wildcard" THEN Returns(TRUE)
    ELSE IF self.tag \in {"Missing", "NonExhaustive", "Hidden"} THEN Returns(FALSE)
    ELSE IF self.tag = "Single" /\ other.tag = "Single" THEN Returns(TRUE)
    ELSE IF self.tag = "Variant" /\ other.tag = "Variant" THEN Returns(self.idx = other.idx)
    ELSE IF self.tag = "Bool" /\ other.tag = "Bool" THEN Returns(self.b = other.b)
    ELSE IF self.tag = "IntRange" /\ other.tag = "IntRange"
        THEN Returns(is_subrange(self.range, other.range))
    ELSE IF self.tag = "F32Range" /\ other.tag = "F32Range"
        THEN Returns(float_range_is_covered_by(self, other))
    ELSE IF self.tag = "F64Range" /\ other.tag = "F64Range"
        THEN Returns(float_range_is_covered_by(self, other))
    ELSE IF self.tag = "Str" /\ other.tag = "Str" THEN Returns(self.val = other.val)
    ELSE IF self.tag = "Slice" /\ other.tag = "Slice"
        THEN Returns(Slice_is_covered_by(self.slice, other.slice))
    ELSE IF self.tag = "Opaque" /\ other.tag = "Opaque" THEN Returns(self.id = other.id)
    ELSE SpanBug

\* Constructor::is_covered_by; the arms are tried in the order of the match.
is_covered_by(self, other) ==
    IF self.tag = "Wildcard" THEN SpanBug
    ELSE IF other.tag = "Wildcard" THEN Returns(TRUE)
    ELSE IF self.tag \in {"Missing", "NonExhaustive", "Hidden"} THEN Returns(FALSE)
    ELSE IF self.tag = "Single" /\ other.tag = "Single" THEN Returns(TRUE)
    ELSE IF self.tag = "Variant" /\ other.tag = "Variant" THEN Returns(self.idx = other.idx)
    ELSE IF self.tag = "Bool" /\ other.tag = "Bool" THEN Returns(self.b = other.b)
    ELSE IF self.tag = "IntRange" /\ other.tag = "IntRange"
        THEN Returns(is_subrange(self.range, other.range))
    ELSE IF self.tag = "F32Range" /\ other.tag = "F32Range"
        THEN Returns(float_range_is_covered_by(self, other))
    ELSE IF self.tag = "F64Range" /\ other.tag = "F64Range"
        THEN Returns(float_range_is_covered_by(self, other))
    ELSE IF self.tag = "Str" /\ other.tag = "Str" THEN Returns(self.val = other.val)
    ELSE IF self.tag = "Slice" /\ other.tag = "Slice"
        THEN Returns(Slice_is_covered_by(self.slice, other.slice))
    ELSE IF self.tag = "Opaque" /\ other.tag = "Opaque" THEN Returns(self.id = other.id)
    ELSE IF self.tag = "Opaque" \/ other.tag = "Opaque" THEN Returns(FALSE)
    ELSE SpanBug

(***************************************************************************)
(* ConstructorSet and ConstructorSet::for_ty                               *)
(***************************************************************************)
ConstructorSet_Single == [tag |-> "Single"]
ConstructorSet_Variants(visible_variants, hidden_variants, non_exhaustive) ==
    [tag |-> "Variants", visible_variants |-> visible_variants,
     hidden_variants |-> hidden_variants, non_exhaustive |-> non_exhaustive]
ConstructorSet_Bool == [tag |-> "Bool"]
ConstructorSet_Integers(range_1, range_2) ==
    [tag |-> "Integers", range_1 |-> range_1, range_2 |-> range_2]
ConstructorSet_Slice(array_len) == [tag |-> "Slice", array_len |-> array_len]
ConstructorSet_SliceOfEmpty == [tag |-> "SliceOfEmpty"]
ConstructorSet_Unlistable == [tag |-> "Unlistable"]
ConstructorSet_Uninhabited == [tag |-> "Uninhabited"]

\* The closure make_range of for_ty.
make_range(t, start, end) ==
    from_range(new_finite(t, start), new_finite(t, end), Included)

\* The filter of for_ty: under exhaustive_patterns, variants known to be uninhabited are
\* left out.
variant_listed(c, v) == ~c.exhaustive_patterns \/ v.inhabited

\* The partition of for_ty: unstable variants and foreign #[doc(hidden)] variants are hidden.
variant_hidden(v) == v.is_unstable \/ (v.is_doc_hidden /\ ~v.is_local)

\* One side of the partition: the listed variant indices (0-based, in declaration order)
\* from idx on whose hiddenness is `hidden`.
RECURSIVE variant_indices(_, _, _, _)
variant_indices(c, variants, idx, hidden) ==
    IF idx >= Len(variants) THEN <<>>
    ELSE (IF variant_listed(c, variants[idx + 1]) /\ variant_hidden(variants[idx + 1]) = hidden
          THEN <<idx>> ELSE <<>>)
            \o variant_indices(c, variants, idx + 1, hidden)

for_ty(c, t) ==
    IF t.kind = "Bool" THEN ConstructorSet_Bool
    ELSE IF t.kind = "Char" THEN
        ConstructorSet_Integers(make_range(t, U128(0), U128(55295)),
                                Some(make_range(t, U128(57344), U128(1114111))))
    ELSE IF t.kind = "Int" THEN
        ConstructorSet_Integers(
            IF is_ptr_sized_integral(t) /\ ~c.precise_pointer_size_matching
            THEN IntRange(NegInfinity, PosInfinity)
            ELSE make_range(t, U128Shl1(t.bits - 1), checked_sub_one(U128Shl1(t.bits - 1))[1]),
            None)
    ELSE IF t.kind = "Uint" THEN
        ConstructorSet_Integers(
            IF is_ptr_sized_integral(t) /\ ~c.precise_pointer_size_matching
            THEN IntRange(new_finite(t, U128(0)), PosInfinity)
            ELSE make_range(t, U128(0), U128Truncate(t.bits)),
            None)
    ELSE IF t.kind = "Array" /\ t.len # None THEN
        (IF t.len[1] # 0 /\ is_uninhabited_elem(c, t)
         THEN ConstructorSet_Uninhabited
         ELSE ConstructorSet_Slice(Some(t.len[1])))
    ELSE IF t.kind \in {"Array", "Slice"} THEN
        (IF is_uninhabited_elem(c, t)
         THEN ConstructorSet_SliceOfEmpty
         ELSE ConstructorSet_Slice(None))
    ELSE IF t.kind = "Adt" /\ t.is_enum THEN
        (IF t.variants = <<>> /\ ~t.foreign_non_exhaustive
         THEN ConstructorSet_Uninhabited
         ELSE ConstructorSet_Variants(
                variant_indices(c, t.variants, 0, FALSE),
                variant_indices(c, t.variants, 0, TRUE),
                t.foreign_non_exhaustive))
    ELSE IF t.kind = "Never" THEN ConstructorSet_Uninhabited
    ELSE IF is_uninhabited(c, t) THEN ConstructorSet_Uninhabited
    ELSE IF t.kind \in {"Adt", "Tuple", "Ref"} THEN ConstructorSet_Single
    ELSE ConstructorSet_Unlistable

(***************************************************************************)
(* The front-end patterns of a column and the head constructor             *)
(* DeconstructedPat::from_pat gives each                                   *)
(***************************************************************************)
PatWild == [kind |-> "Wild"]
PatError == [kind |-> "Error"]
PatDeref == [kind |-> "Deref"]
PatLeaf == [kind |-> "Leaf"]
PatVariant(variant_index) == [kind |-> "Variant", variant_index |-> variant_index]
\* value: what try_eval_bool / try_eval_bits give, None when the constant does not evaluate
\* (for a float the bits are kept as the float they encode; for str, the constant itself).
PatConstant(value) == [kind |-> "Constant", value |-> value]
PatRange(lo, hi, end) == [kind |-> "Range", lo |-> lo, hi |-> hi, end |-> end]
\* PatKind::Array and PatKind::Slice: the lengths of prefix and suffix, and whether there
\* is a `..` between them.
PatSlice(prefix, slice, suffix) ==
    [kind |-> "Slice", prefix |-> prefix, slice |-> slice, suffix |-> suffix]

\* -INFINITY and INFINITY of the float types, and the numbers between them.
FloatNegInfinity == FloatNum(0)
FloatInfinity == FloatNum(3)

\* u32, as two limbs of 16 bits, most significant first.
U32(n) == <<n \div LimbBase, n % LimbBase>>
U32_MAX == <<LimbBase - 1, LimbBase - 1>>

\* u32::wrapping_add(x, 1), the arithmetic of AtomicU32::fetch_add.
wrapping_add_one(x) ==
    IF x[2] < LimbBase - 1 THEN <<x[1], x[2] + 1>>
    ELSE IF x[1] < LimbBase - 1 THEN <<x[1] + 1, 0>>
    ELSE <<0, 0>>

\* A mutant of OpaqueId_new: the counter is read but not advanced.
OpaqueId_new_no_add(counter) == [id |-> counter, OPAQUE_ID |-> counter]

\* OpaqueId::new(): OPAQUE_ID.fetch_add(1, SeqCst) on the counter value `counter`; the
\* id is the value before the addition, which wraps around at u32::MAX.
OpaqueId_new(counter) == [id |-> counter, OPAQUE_ID |-> wrapping_add_one(counter)]

\* The PatKind::Constant arm of from_pat.  For the type str, the constructor is the one of
\* the sub-pattern built for a `&str` constant.
from_pat_constant(t, value, id) ==
    IF t.kind = "Bool" THEN
        (IF value = None THEN Opaque(id) ELSE Bool(value[1]))
    ELSE IF t.kind \in {"Char", "Int", "Uint"} THEN
        (IF value = None THEN Opaque(id) ELSE CtorIntRange(from_bits(t, value[1])))
    ELSE IF t.kind = "Float" /\ t.fty = "F32" THEN
        (IF value = None THEN Opaque(id) ELSE F32Range(value[1], value[1], Included))
    ELSE IF t.kind = "Float" /\ t.fty = "F64" THEN
        (IF value = None THEN Opaque(id) ELSE F64Range(value[1], value[1], Included))
    ELSE IF t.kind = "Str" THEN Str(value[1])
    ELSE Opaque(id)

\* The PatKind::Range arm of from_pat.
from_pat_range(t, lo, hi, end) ==
    IF t.kind \in {"Char", "Int", "Uint"} THEN
        CtorIntRange(from_range(from_pat_range_bdy(lo, t), from_pat_range_bdy(hi, t), end))
    ELSE IF t.fty = "F32" THEN
        F32Range(IF lo = None THEN FloatNegInfinity ELSE lo[1],
                 IF hi = None THEN FloatInfinity ELSE hi[1], end)
    ELSE
        F64Range(IF lo = None THEN FloatNegInfinity ELSE lo[1],
                 IF hi = None THEN FloatInfinity ELSE hi[1], end)

\* The constructor of DeconstructedPat::from_pat(cx, pat) for a pattern of type t; id is
\* the OpaqueId a call of OpaqueId::new() returns.
from_pat_ctor(t, pat, id) ==
    CASE pat.kind = "Wild" -> Wildcard
      [] pat.kind = "Deref" -> Single
      [] pat.kind = "Leaf" -> Single
      [] pat.kind = "Variant" -> Variant(pat.variant_index)
      [] pat.kind = "Constant" -> from_pat_constant(t, pat.value, id)
      [] pat.kind = "Range" -> from_pat_range(t, pat.lo, pat.hi, pat.end)
      [] pat.kind = "Slice" ->
            CtorSlice(Slice_new(IF t.kind = "Array" THEN Some(t.len[1]) ELSE None,
                                IF pat.slice THEN VarLen(pat.prefix, pat.suffix)
                                ELSE FixedLen(pat.prefix + pat.suffix)))
      [] pat.kind = "Error" -> Opaque(id)

(***************************************************************************)
(* Ranges beyond the boundaries of isize and usize                         *)
(***************************************************************************)
\* ty.primitive_size(tcx), in bits.
primitive_size(t) == IF t.kind = "Char" THEN 32 ELSE t.bits

\* Scalar::try_from_uint(bits, size): None when the value does not fit in the size.
try_from_uint(bits, size) ==
    IF bits = U128Truncate(size) \/ U128Lt(bits, U128Truncate(size))
    THEN Some(bits) ELSE None

to_diagnostic_pat_range_bdy(x, t) ==
    CASE x.tag = "NegInfinity" -> PatNegInfinity
      [] x.tag = "Finite" ->
            (IF try_from_uint(U128Xor(x.n, signed_bias(t)), primitive_size(t)) = None
             THEN PatPosInfinity
             ELSE PatFinite(U128Xor(x.n, signed_bias(t))))
      [] OTHER -> PatPosInfinity

\* A mutant of is_beyond_boundaries: only the range before isize::MIN is recognised.
is_beyond_boundaries_below_only(range, t, c) ==
    /\ is_ptr_sized_integral(t)
    /\ ~c.precise_pointer_size_matching
    /\ range.hi = Finite(U128_ZERO)

is_beyond_boundaries(range, t, c) ==
    /\ is_ptr_sized_integral(t)
    /\ ~c.precise_pointer_size_matching
    /\ \/ to_diagnostic_pat_range_bdy(range.lo, t) = PatPosInfinity
       \/ range.hi = Finite(U128_ZERO)

(***************************************************************************)
(* ConstructorSet::split                                                   *)
(***************************************************************************)
\* The constructors of `s` whose tag is in `tags`, in order.
RECURSIVE with_tag_in(_, _)
with_tag_in(s, tags) ==
    IF s = <<>> THEN <<>>
    ELSE (IF Head(s).tag \in tags THEN <<Head(s)>> ELSE <<>>) \o with_tag_in(Tail(s), tags)

\* The constructors of `s` whose tag is not in `tags`, in order.
RECURSIVE with_tag_not_in(_, _)
with_tag_not_in(s, tags) ==
    IF s = <<>> THEN <<>>
    ELSE (IF Head(s).tag \notin tags THEN <<Head(s)>> ELSE <<>>)
            \o with_tag_not_in(Tail(s), tags)

\* The split pairs with the given presence, each made a constructor by Wrap.
RECURSIVE pushed(_, _, _)
pushed(pairs, presence, wrap) ==
    IF pairs = <<>> THEN <<>>
    ELSE (IF Head(pairs).presence = presence
          THEN <<IF wrap = "IntRange" THEN CtorIntRange(Head(pairs).range)
                 ELSE CtorSlice(Head(pairs).slice)>>
          ELSE <<>>) \o pushed(Tail(pairs), presence, wrap)

\* Variant(v) for the variants v of `variants` that are (in = TRUE) or are not (in = FALSE)
\* in seen_set, in order.
RECURSIVE variants_by_seen(_, _, _)
variants_by_seen(variants, seen_set, in) ==
    IF variants = <<>> THEN <<>>
    ELSE (IF (Head(variants) \in seen_set) = in THEN <<Variant(Head(variants))>> ELSE <<>>)
            \o variants_by_seen(Tail(variants), seen_set, in)

\* The Unseen arm of the SliceOfEmpty case: only `[]` can be missing.
RECURSIVE missing_of_empty(_)
missing_of_empty(pairs) ==
    IF pairs = <<>> THEN <<>>
    ELSE (IF Head(pairs).presence = Unseen /\ Slice_arity(Head(pairs).slice) = 0
          THEN <<CtorSlice(Slice_new(None, FixedLen(0)))>>
          ELSE <<>>) \o missing_of_empty(Tail(pairs))

\* seen.iter().map(|c| c.as_int_range().unwrap()) and its like for slices.
unwrap_all(seen, field) == [i \in 1..Len(seen) |-> seen[i][field]]

\* A mutant of opaques_of: the Opaque constructors of the column are forgotten.
opaques_of_dropped(column) == <<>>

\* The first loop of split: the Opaque constructors go to `present` as they come.
opaques_of(column) == with_tag_in(column, {"Opaque"})

\* The first loop of split: `seen`, the constructors except wildcards and opaques.
seen_of(column) == with_tag_not_in(column, {"Opaque", "Wildcard"})

\* A mutant of split_variants: a hidden variant that is not seen is dropped silently.
split_variants_no_hidden(set, seen) ==
    LET seen_set == {seen[i].idx : i \in 1..Len(seen)}
    IN [present |-> variants_by_seen(set.visible_variants, seen_set, TRUE)
                        \o variants_by_seen(set.hidden_variants, seen_set, TRUE),
        missing |-> variants_by_seen(set.visible_variants, seen_set, FALSE)
                        \o (IF set.non_exhaustive THEN <<NonExhaustive>> ELSE <<>>)]

\* A mutant of split_variants: the seen variants are told from the unseen the wrong way
\* round.
split_variants_swapped(set, seen) ==
    LET seen_set == {seen[i].idx : i \in 1..Len(seen)}
        skipped_a_hidden_variant == \E i \in 1..Len(set.hidden_variants) :
                                        set.hidden_variants[i] \notin seen_set
    IN [present |-> variants_by_seen(set.visible_variants, seen_set, FALSE)
                        \o variants_by_seen(set.hidden_variants, seen_set, TRUE),
        missing |-> variants_by_seen(set.visible_variants, seen_set, TRUE)
                        \o (IF skipped_a_hidden_variant THEN <<Hidden>> ELSE <<>>)
                        \o (IF set.non_exhaustive THEN <<NonExhaustive>> ELSE <<>>)]

\* The Variants arm of split.
split_variants(set, seen) ==
    LET seen_set == {seen[i].idx : i \in 1..Len(seen)}
        skipped_a_hidden_variant == \E i \in 1..Len(set.hidden_variants) :
                                        set.hidden_variants[i] \notin seen_set
    IN [present |-> variants_by_seen(set.visible_variants, seen_set, TRUE)
                        \o variants_by_seen(set.hidden_variants, seen_set, TRUE),
        missing |-> variants_by_seen(set.visible_variants, seen_set, FALSE)
                        \o (IF skipped_a_hidden_variant THEN <<Hidden>> ELSE <<>>)
                        \o (IF set.non_exhaustive THEN <<NonExhaustive>> ELSE <<>>)]

\* The Bool arm of split.
split_bool(seen) ==
    LET seen_false == \E i \in 1..Len(seen) : ~seen[i].b
        seen_true == \E i \in 1..Len(seen) : seen[i].b
    IN [present |-> (IF seen_false THEN <<Bool(FALSE)>> ELSE <<>>)
                        \o (IF seen_true THEN <<Bool(TRUE)>> ELSE <<>>),
        missing |-> (IF seen_false THEN <<>> ELSE <<Bool(FALSE)>>)
                        \o (IF seen_true THEN <<>> ELSE <<Bool(TRUE)>>)]

\* The Integers arm of split.
split_integers(set, seen) ==
    LET seen_ranges == unwrap_all(seen, "range")
        out_1 == IntRange_split(set.range_1, seen_ranges)
        out_2 == IF set.range_2 = None THEN <<>>
                 ELSE IntRange_split(set.range_2[1], seen_ranges)
    IN [present |-> pushed(out_1, Seen, "IntRange") \o pushed(out_2, Seen, "IntRange"),
        missing |-> pushed(out_1, Unseen, "IntRange") \o pushed(out_2, Unseen, "IntRange")]

\* The Slice arm of split.
split_slice(set, seen) ==
    LET out == Slice_split(Slice_new(set.array_len, VarLen(0, 0)), unwrap_all(seen, "slice"))
    IN [present |-> pushed(out, Seen, "Slice"), missing |-> pushed(out, Unseen, "Slice")]

\* The SliceOfEmpty arm of split.
split_slice_of_empty(seen) ==
    LET out == Slice_split(Slice_new(None, VarLen(0, 0)), unwrap_all(seen, "slice"))
    IN [present |-> pushed(out, Seen, "Slice"), missing |-> missing_of_empty(out)]

\* ConstructorSet::split(self = set, pcx = c, ctors = column)
ConstructorSet_split(set, c, column) ==
    LET seen == seen_of(column)
        arm ==
            CASE set.tag = "Single" ->
                    (IF seen = <<>> THEN [present |-> <<>>, missing |-> <<Single>>]
                     ELSE [present |-> <<Single>>, missing |-> <<>>])
              [] set.tag = "Variants" -> split_variants(set, seen)
              [] set.tag = "Bool" -> split_bool(seen)
              [] set.tag = "Integers" -> split_integers(set, seen)
              [] set.tag = "Slice" -> split_slice(set, seen)
              [] set.tag = "SliceOfEmpty" -> split_slice_of_empty(seen)
              [] set.tag = "Unlistable" -> [present |-> seen, missing |-> <<NonExhaustive>>]
              [] set.tag = "Uninhabited" ->
                    (IF ~c.exhaustive_patterns /\ ~c.is_top_level
                     THEN [present |-> <<>>, missing |-> <<NonExhaustive>>]
                     ELSE [present |-> <<>>, missing |-> <<>>])
    IN [present |-> opaques_of(column) \o arm.present, missing |-> arm.missing]

(***************************************************************************)
(* Spec: a column of patterns of one type is lowered and split             *)
(***************************************************************************)
\* The longest column.
MaxColumn == 3

\* enum E4 { A, B, C, D }
Enum4 ==
    TyEnum(<<VariantDef(TRUE, FALSE, FALSE, TRUE), VariantDef(TRUE, FALSE, FALSE, TRUE),
             VariantDef(TRUE, FALSE, FALSE, TRUE), VariantDef(TRUE, FALSE, FALSE, TRUE)>>, FALSE)
\* A foreign #[non_exhaustive] enum with an ordinary variant, an unstable one, a
\* #[doc(hidden)] one and one with an uninhabited field.
EnumForeign ==
    TyEnum(<<VariantDef(TRUE, FALSE, FALSE, FALSE), VariantDef(TRUE, TRUE, FALSE, FALSE),
             VariantDef(TRUE, FALSE, TRUE, FALSE), VariantDef(FALSE, FALSE, FALSE, FALSE)>>, TRUE)
\* A local enum with a #[doc(hidden)] variant, an unstable variant and a variant with an
\* uninhabited field.
EnumLocal ==
    TyEnum(<<VariantDef(TRUE, FALSE, TRUE, TRUE), VariantDef(TRUE, TRUE, FALSE, TRUE),
             VariantDef(FALSE, FALSE, FALSE, TRUE)>>, FALSE)
\* enum Void {}
EnumVoid == TyEnum(<<>>, FALSE)
\* A local enum whose only variant has an uninhabited field: enum { A(!) }
EnumOfNever == TyEnum(<<VariantDef(FALSE, FALSE, FALSE, TRUE)>>, FALSE)

Tys ==
    {TyBool, TyChar, TyInt(32, FALSE), TyInt(64, TRUE), TyUint(8, FALSE), TyUint(64, TRUE),
     TyUint(32, TRUE), TyUint(128, FALSE), TyArray(Some(0), TRUE), TyArray(Some(2), FALSE),
     TyArray(Some(2), TRUE), TyArray(None, TRUE), TyArray(None, FALSE), TySlice(FALSE),
     TySlice(TRUE), Enum4, EnumForeign, EnumLocal, EnumVoid, EnumOfNever, TyStruct(FALSE),
     TyStruct(TRUE), TyTuple(FALSE), TyRef(FALSE), TyNever, TyFloat("F32"), TyFloat("F64"),
     TyStr}

Cxs ==
    [precise_pointer_size_matching : BOOLEAN, exhaustive_patterns : BOOLEAN,
     is_top_level : BOOLEAN]

\* lo..=hi on small literals.
LitRange(lo, hi) == PatRange(PatFinite(U128(lo)), PatFinite(U128(hi)), Included)

\* The slice and array patterns of the column: [], [_], [_, _], [..], [_, ..], [.., _],
\* [_, .., _]; on an array, those that type-check for its length.
SlicePatterns(t) ==
    LET all == {PatSlice(0, FALSE, 0), PatSlice(1, FALSE, 0), PatSlice(2, FALSE, 0),
                PatSlice(0, TRUE, 0), PatSlice(1, TRUE, 0), PatSlice(0, TRUE, 1),
                PatSlice(1, TRUE, 1)}
    IN IF t.kind = "Slice" THEN all
       ELSE IF t.len = None THEN {}
       ELSE {p \in all : IF p.slice THEN p.prefix + p.suffix <= t.len[1]
                         ELSE p.prefix + p.suffix = t.len[1]}

\* The patterns a column of type t is drawn from.
Patterns(t) ==
    {PatWild} \cup
    CASE t.kind = "Bool" -> {PatConstant(Some(TRUE)), PatConstant(Some(FALSE)), PatConstant(None)}
      [] t.kind = "Char" ->
            {PatConstant(Some(U128(97))), LitRange(53248, 57600), LitRange(0, 1114111),
             PatConstant(None)}
      [] t.kind = "Int" /\ ~t.ptr_sized ->
            {LitRange(0, 100), LitRange(50, 150), LitRange(0, 200),
             PatRange(PatNegInfinity, PatFinite(U128Truncate(t.bits)), Included),
             PatError}
      [] t.kind = "Int" /\ t.ptr_sized ->
            {PatRange(PatNegInfinity, PatFinite(U128(0)), Excluded),
             PatRange(PatFinite(U128(0)), PatPosInfinity, Included),
             PatRange(PatFinite(U128Shl1(t.bits - 1)),
                      PatFinite(checked_sub_one(U128Shl1(t.bits - 1))[1]), Included),
             PatConstant(Some(U128(0)))}
      [] t.kind = "Uint" /\ ~t.ptr_sized ->
            {PatConstant(Some(U128(0))), PatConstant(Some(U128Truncate(t.bits))),
             PatRange(PatFinite(U128(0)), PatFinite(U128Truncate(t.bits)), Included),
             PatRange(PatFinite(U128(128)), PatPosInfinity, Included), PatConstant(None)}
      [] t.kind = "Uint" /\ t.ptr_sized ->
            {PatRange(PatFinite(U128(0)), PatFinite(U128Truncate(32)), Included),
             PatRange(PatFinite(U128(0)), PatFinite(U128Truncate(t.bits)), Included),
             PatRange(PatFinite(U128(5)), PatPosInfinity, Included),
             PatConstant(Some(U128(5)))}
      [] t.kind \in {"Array", "Slice"} -> SlicePatterns(t) \cup {PatError}
      [] t.kind = "Adt" /\ t.is_enum ->
            {PatVariant(i - 1) : i \in 1..Len(t.variants)} \cup {PatConstant(None)}
      [] t.kind = "Adt" /\ ~t.is_enum -> {PatLeaf, PatConstant(None)}
      [] t.kind = "Tuple" -> {PatLeaf}
      [] t.kind = "Ref" -> {PatDeref, PatConstant(None)}
      [] t.kind = "Never" -> {}
      [] t.kind = "Float" ->
            {PatConstant(Some(FloatNum(1))), PatConstant(Some(FloatNaN)),
             PatRange(Some(FloatNum(1)), Some(FloatNum(2)), Included),
             PatRange(Some(FloatNum(1)), Some(FloatNum(2)), Excluded),
             PatRange(None, Some(FloatNum(2)), Included)}
      [] t.kind = "Str" -> {PatConstant(Some("a")), PatConstant(Some("b"))}

Init ==
    /\ ty \in Tys
    /\ cx \in Cxs
    /\ ctor_set = ConstructorSet_Uninhabited
    /\ OPAQUE_ID = <<0, 0>>
    /\ ctors = <<>>
    /\ present = <<>>
    /\ missing = <<>>
    /\ pc = "for_ty"
    /\ cover = <<>>
    /\ OpaqueIdle
    /\ ArithIdle
    /\ PatIdle
    /\ IntIdle
    /\ SliceIdle

\* ConstructorSet::for_ty(cx, ty)
ForTy ==
    /\ pc = "for_ty"
    /\ ctor_set' = for_ty(cx, ty)
    /\ pc' = "column"
    /\ UNCHANGED <<ty, cx, OPAQUE_ID, ctors, present, missing>>
    /\ UNCHANGED restVars
    /\ UNCHANGED intVars
    /\ UNCHANGED sliceVars

\* DeconstructedPat::from_pat on the pattern of one more row; its constructor joins the
\* column.  Only the Opaque constructors draw an id.
LowerPattern ==
    /\ pc = "column"
    /\ Len(ctors) < MaxColumn
    /\ \E pat \in Patterns(ty) :
        LET drawn == OpaqueId_new(OPAQUE_ID)
            ctor == from_pat_ctor(ty, pat, drawn.id)
        IN /\ ctors' = Append(ctors, ctor)
           /\ OPAQUE_ID' = IF ctor.tag = "Opaque" THEN drawn.OPAQUE_ID ELSE OPAQUE_ID
    /\ UNCHANGED <<ty, cx, ctor_set, present, missing, pc>>
    /\ UNCHANGED restVars
    /\ UNCHANGED intVars
    /\ UNCHANGED sliceVars

\* ctor_set.split(pcx, column).  The call of IntRange::split on range_1, or of
\* Slice::split, that it makes is recorded with its arguments and result.
SplitColumn ==
    /\ pc = "column"
    /\ LET out == ConstructorSet_split(ctor_set, cx, ctors)
       IN /\ present' = out.present
          /\ missing' = out.missing
    /\ pc' = "split"
    /\ UNCHANGED <<ty, cx, ctor_set, OPAQUE_ID, ctors>>
    /\ UNCHANGED restVars
    /\ IF ctor_set.tag = "Integers"
       THEN /\ range_self' = ctor_set.range_1
            /\ column_ranges' = unwrap_all(seen_of(ctors), "range")
            /\ split_ranges' = IntRange_split(ctor_set.range_1,
                                              unwrap_all(seen_of(ctors), "range"))
            /\ int_pc' = "split"
       ELSE UNCHANGED intVars
    /\ IF ctor_set.tag \in {"Slice", "SliceOfEmpty"}
       THEN /\ slice_self' = Slice_new(IF ctor_set.tag = "Slice" THEN ctor_set.array_len
                                       ELSE None, VarLen(0, 0))
            /\ column_slices' = unwrap_all(seen_of(ctors), "slice")
            /\ split_slices' = Slice_split(slice_self', column_slices')
            /\ slice_pc' = "split"
            /\ UNCHANGED covered
       ELSE UNCHANGED sliceVars

\* The caller asks of each missing integer range whether it is beyond the boundaries of
\* the type: range.is_beyond_boundaries(pcx.ty, cx.tcx).
CallIsBeyondBoundaries ==
    /\ pc = "split"
    /\ ctor_set.tag = "Integers"
    /\ calc = <<>>
    /\ missing # <<>>
    /\ calc' = [i \in 1..Len(missing) |-> is_beyond_boundaries(missing[i].range, ty, cx)]
    /\ UNCHANGED <<ty, cx, ctor_set, OPAQUE_ID, ctors, present, missing, pc, cover>>
    /\ UNCHANGED opaqueVars
    /\ UNCHANGED patVars
    /\ UNCHANGED intVars
    /\ UNCHANGED sliceVars

Next == ForTy \/ LowerPattern \/ SplitColumn \/ CallIsBeyondBoundaries

Spec == Init /\ [][Next]_vars

(***************************************************************************)
(* The values of a type and the values a constructor stands for            *)
(***************************************************************************)
Range(f) == {f[i] : i \in 1..Len(f)}
Outputs == present \o missing
ColumnCtors == {c \in Range(ctors) : ~is_wildcard(c)}

\* The boundaries of the integer ranges at hand.
RangeBoundaries ==
    LET rs == {c.range : c \in {c \in Range(Outputs) \cup Range(ctors) : c.tag = "IntRange"}}
    IN {r.lo : r \in rs} \cup {r.hi : r \in rs}

U128Le(a, b) == a = b \/ U128Lt(a, b)

\* The values of the type that are looked at.  An integer is its biased encoding; of the
\* integers of the type, those at a boundary of a range at hand are taken (a gap or an
\* overlap of ranges starts at a boundary).  An array or slice is its length, a struct,
\* tuple or reference is a single value, an enum value is its variant, and a foreign
\* #[non_exhaustive] enum also has the values of variants not yet declared.
ValuesOf(t) ==
    CASE t.kind = "Bool" -> {TRUE, FALSE}
      [] t.kind = "Char" ->
            {b \in RangeBoundaries \cup {Finite(U128(0)), Finite(U128(57344))} :
                /\ b.tag = "Finite"
                /\ \/ U128Le(b.n, U128(55295))
                   \/ U128Le(U128(57344), b.n) /\ U128Le(b.n, U128(1114111))}
      [] t.kind \in {"Int", "Uint"} ->
            {b \in RangeBoundaries \cup {Finite(U128(0))} :
                b.tag = "Finite" /\ U128Le(b.n, U128Truncate(t.bits))}
      [] t.kind = "Array" ->
            IF t.len = None
            THEN (IF t.elem_uninhabited THEN {0} ELSE ProbedLengths)
            ELSE (IF t.len[1] # 0 /\ t.elem_uninhabited THEN {} ELSE {t.len[1]})
      [] t.kind = "Slice" -> IF t.elem_uninhabited THEN {0} ELSE ProbedLengths
      [] t.kind = "Adt" /\ t.is_enum ->
            {[variant |-> i - 1] : i \in {i \in 1..Len(t.variants) : t.variants[i].inhabited}}
                \cup (IF t.foreign_non_exhaustive THEN {[variant |-> -1]} ELSE {})
      [] t.kind \in {"Adt", "Tuple", "Ref"} -> IF t.uninhabited THEN {} ELSE {"value"}
      [] t.kind = "Never" -> {}
      [] t.kind = "Float" -> {FloatNum(0), FloatNum(1), FloatNum(2), FloatNum(3), FloatNaN}
      [] t.kind = "Str" -> {"a", "b", "c"}

\* Whether the value v is one of those the constructor e stands for.  Hidden stands for
\* the hidden variants that are not listed in `present`; NonExhaustive stands for the
\* variants not yet declared, and in an unlistable type for every value that no
\* constructor of `present` stands for; an Opaque stands for no value that is known.
RECURSIVE StandsFor(_, _)
StandsFor(e, v) ==
    CASE e.tag = "Single" -> TRUE
      [] e.tag = "Variant" -> v.variant = e.idx
      [] e.tag = "Bool" -> v = e.b
      [] e.tag = "IntRange" ->
            MaybeInfiniteInt_le(e.range.lo, v) /\ MaybeInfiniteInt_lt(v, e.range.hi)
      [] e.tag \in {"F32Range", "F64Range"} ->
            /\ ge(v, e.lo)
            /\ \/ partial_cmp(v, e.hi) = Some("Less")
               \/ e.end = Included /\ partial_cmp(v, e.hi) = Some("Equal")
      [] e.tag = "Str" -> v = e.val
      [] e.tag = "Slice" -> covers_length(e.slice.kind, v)
      [] e.tag = "Opaque" -> FALSE
      [] e.tag = "Hidden" ->
            /\ v.variant \in Range(ctor_set.hidden_variants)
            /\ Variant(v.variant) \notin Range(present)
      [] e.tag = "NonExhaustive" ->
            CASE ctor_set.tag = "Variants" -> v.variant = -1
              [] ctor_set.tag = "Unlistable" -> \A q \in Range(present) : ~StandsFor(q, v)
              [] OTHER -> FALSE
      [] e.tag = "Wildcard" -> TRUE

\* e.is_covered_by(c) returns true.
Covers(c, e) == is_covered_by(e, c) = Returns(TRUE)

(***************************************************************************)
(* Claims about the i32 example                                            *)
(***************************************************************************)
\* The biased encoding of the i32 value n, for 0 <= n < 2^31: n + 2^31.
BiasedI32(n) == Finite([U128(n) EXCEPT ![NumLimbs - 1] = @ + 32768])
\* The biased encodings of i32::MIN and of i32::MAX + 1: 0 and 2^32.
BiasedI32Min == Finite(U128_ZERO)
BiasedI32End == Finite([U128_ZERO EXCEPT ![NumLimbs - 2] = 1])

I32 == TyInt(32, FALSE)

\* The column {0..=100, 50..=150, 0..=200} of i32 patterns has been lowered, in some
\* order, and split.
I32ExampleSplit ==
    /\ pc = "split"
    /\ ty = I32
    /\ Len(ctors) = 3
    /\ Range(ctors) = {from_pat_ctor(I32, LitRange(0, 100), U32(0)),
                       from_pat_ctor(I32, LitRange(50, 150), U32(0)),
                       from_pat_ctor(I32, LitRange(0, 200), U32(0))}

\* The five ranges from 0 on that the example yields.
I32ExampleTail ==
    <<[presence |-> Seen, range |-> IntRange(BiasedI32(0), BiasedI32(50))],
      [presence |-> Seen, range |-> IntRange(BiasedI32(50), BiasedI32(101))],
      [presence |-> Seen, range |-> IntRange(BiasedI32(101), BiasedI32(151))],
      [presence |-> Seen, range |-> IntRange(BiasedI32(151), BiasedI32(201))],
      [presence |-> Unseen, range |-> IntRange(BiasedI32(201), BiasedI32End)]>>

\* C4 as stated: the i32 wildcard range split by the column {0..=100, 50..=150, 0..=200}
\* yields (Seen,[MIN,0)), (Seen,[0,50)), (Seen,[50,101)), (Seen,[101,151)),
\* (Seen,[151,201)), (Unseen,[201,MAX+1)), in this order.
C4_AsStated ==
    I32ExampleSplit =>
        split_ranges = <<[presence |-> Seen, range |-> IntRange(BiasedI32Min, BiasedI32(0))]>>
                            \o I32ExampleTail

\* C4, amended: the i32 wildcard range split by the column {0..=100, 50..=150, 0..=200}
\* yields (Unseen,[MIN,0)), (Seen,[0,50)), (Seen,[50,101)), (Seen,[101,151)),
\* (Seen,[151,201)), (Unseen,[201,MAX+1)), in this order: no range of the column holds a
\* negative value.
C4_I32Example ==
    I32ExampleSplit =>
        /\ range_self = IntRange(BiasedI32Min, BiasedI32End)
        /\ split_ranges = <<[presence |-> Unseen, range |-> IntRange(BiasedI32Min, BiasedI32(0))]>>
                            \o I32ExampleTail

\* The example column has been split, with the ranges lowered in the order of the claim.
C4_Witness ==
    /\ I32ExampleSplit
    /\ ctors = <<from_pat_ctor(I32, LitRange(0, 100), U32(0)),
                 from_pat_ctor(I32, LitRange(50, 150), U32(0)),
                 from_pat_ctor(I32, LitRange(0, 200), U32(0))>>
    /\ Len(split_ranges) = 6

(***************************************************************************)
(* Claims about ConstructorSet::split                                      *)
(***************************************************************************)
\* C5: after ConstructorSet::split, whatever the constructor set for_ty gave and whatever
\* the column, every value of the type is one that some constructor of `present` or of
\* `missing` stands for.
C5_PresentAndMissingCoverTheType ==
    pc = "split" =>
        \A v \in ValuesOf(ty) : \E e \in Range(Outputs) : StandsFor(e, v)

\* A split of an enum column in which a value is covered by `present`, another by a
\* Variant of `missing`, another by Hidden and another by NonExhaustive.
C5_Witness ==
    /\ pc = "split"
    /\ ctor_set.tag = "Variants"
    /\ \E v \in ValuesOf(ty) : \E e \in Range(present) : StandsFor(e, v)
    /\ \E v \in ValuesOf(ty) : \E e \in Range(missing) : e.tag = "Variant" /\ StandsFor(e, v)
    /\ \E v \in ValuesOf(ty) : StandsFor(Hidden, v) /\ Hidden \in Range(missing)
    /\ \E v \in ValuesOf(ty) : StandsFor(NonExhaustive, v) /\ NonExhaustive \in Range(missing)

\* A split of an integer column in which values are covered by `present` and by `missing`.
C5_WitnessIntegers ==
    /\ pc = "split"
    /\ ctor_set.tag = "Integers"
    /\ \E v \in ValuesOf(ty) : \E e \in Range(present) : StandsFor(e, v)
    /\ \E v \in ValuesOf(ty) : \E e \in Range(missing) : StandsFor(e, v)

\* C6: after ConstructorSet::split, the elements of `present` and `missing` taken
\* together are pairwise disjoint: no constructor is listed twice and no value of the
\* type is one that two of them stand for.
C6_OutputsPairwiseDisjoint ==
    pc = "split" =>
        \A i, j \in 1..Len(Outputs) :
            i < j => /\ Outputs[i] # Outputs[j]
                     /\ \A v \in ValuesOf(ty) :
                            ~(StandsFor(Outputs[i], v) /\ StandsFor(Outputs[j], v))

\* C6 for the constructor sets whose constructors can be listed (all but Unlistable).
C6_ListableOutputsPairwiseDisjoint ==
    (pc = "split" /\ ctor_set.tag # "Unlistable") =>
        \A i, j \in 1..Len(Outputs) :
            i < j => /\ Outputs[i] # Outputs[j]
                     /\ \A v \in ValuesOf(ty) :
                            ~(StandsFor(Outputs[i], v) /\ StandsFor(Outputs[j], v))

\* C7: after ConstructorSet::split, a constructor of the output is in `present` if and
\* only if it is covered by some constructor of the column that is not a wildcard; so no
\* constructor of `missing` is covered by a constructor of the column.
C7_PresentIffCoveredByColumn ==
    pc = "split" =>
        /\ \A e \in Range(present) : \E c \in ColumnCtors : Covers(c, e)
        /\ \A e \in Range(missing) : \A c \in ColumnCtors : ~Covers(c, e)

\* C7 for the columns without a NaN float constant.
C7_PresentIffCoveredByColumnNoNaN ==
    (pc = "split" /\ \A c \in ColumnCtors : c.tag \in {"F32Range", "F64Range"} => ~c.lo.nan) =>
        /\ \A e \in Range(present) : \E c \in ColumnCtors : Covers(c, e)
        /\ \A e \in Range(missing) : \A c \in ColumnCtors : ~Covers(c, e)

\* The union of the constructors of `present` that c covers is c: there is at least one,
\* and the values they stand for are those c stands for.
UnionOfPresent(c) ==
    LET parts == {e \in Range(present) : Covers(c, e)}
    IN /\ parts # {}
       /\ \A v \in ValuesOf(ty) : StandsFor(c, v) <=> \E e \in parts : StandsFor(e, v)

\* C8: after ConstructorSet::split, every constructor of the column that is not a
\* wildcard is the union of one or more constructors of `present`.
C8_ColumnCtorIsUnionOfPresent ==
    pc = "split" => \A c \in ColumnCtors : UnionOfPresent(c)

\* C8 for the columns whose constructors for_ty lists (no variant that is filtered out as
\* uninhabited, no pattern of a type taken as uninhabited) and that hold no NaN constant.
C8_ListedColumnCtorIsUnionOfPresent ==
    pc = "split" =>
        \A c \in ColumnCtors :
            (/\ c.tag = "Variant" =>
                    c.idx \in Range(ctor_set.visible_variants) \cup Range(ctor_set.hidden_variants)
             /\ c.tag \in {"Single", "Slice"} => ctor_set.tag # "Uninhabited"
             /\ c.tag \in {"F32Range", "F64Range"} => ~c.lo.nan)
                => UnionOfPresent(c)

(***************************************************************************)
(* SpecCover: Constructor::is_covered_by on three constructors of one type *)
(***************************************************************************)
\* The constructors a pattern of type t can have, and those that splitting makes up.
CtorsOf(t) ==
    {from_pat_ctor(t, pat, id) : pat \in Patterns(t), id \in {U32(0), U32(1)}}
        \cup {Or, Wildcard, NonExhaustive, Hidden, Missing}

InitCover ==
    /\ ty \in Tys
    /\ cx = [precise_pointer_size_matching |-> FALSE, exhaustive_patterns |-> FALSE,
             is_top_level |-> FALSE]
    /\ ctor_set = ConstructorSet_Uninhabited
    /\ OPAQUE_ID = U32(2)
    /\ ctors \in [1..3 -> CtorsOf(ty)]
    /\ present = <<>>
    /\ missing = <<>>
    /\ pc = "cover"
    /\ cover = <<>>
    /\ OpaqueIdle
    /\ ArithIdle
    /\ PatIdle
    /\ IntIdle
    /\ SliceIdle

\* ctors[i].is_covered_by(pcx, &ctors[j]), for each pair.
CallIsCoveredBy ==
    /\ pc = "cover"
    /\ cover' = [i \in 1..3 |-> [j \in 1..3 |-> is_covered_by(ctors[i], ctors[j])]]
    /\ pc' = "covered"
    /\ UNCHANGED <<ty, cx, ctor_set, OPAQUE_ID, ctors, present, missing>>
    /\ UNCHANGED opaqueVars
    /\ UNCHANGED arithVars
    /\ UNCHANGED patVars
    /\ UNCHANGED intVars
    /\ UNCHANGED sliceVars

NextCover == CallIsCoveredBy

SpecCover == InitCover /\ [][NextCover]_vars

(***************************************************************************)
(* Claims about Constructor::is_covered_by                                 *)
(***************************************************************************)
SyntheticTags == {"NonExhaustive", "Hidden", "Missing"}

\* A constructor that may stand on both sides of a comparison: not Wildcard (never the
\* output of splitting), not Or (flattened before), not one of the synthetic constructors
\* (which only a wildcard covers).
ComparableCtor(c) == c.tag \notin SyntheticTags \cup {"Wildcard", "Or"}

IsNaNRange(c) == c.tag \in {"F32Range", "F64Range"} /\ (c.lo.nan \/ c.hi.nan)

\* C11: for every valid constructor c, c.is_covered_by(c) returns true.
C11_CoverageReflexive ==
    pc = "covered" =>
        \A i \in 1..3 : ComparableCtor(ctors[i]) => cover[i][i] = Returns(TRUE)

\* C11 for the constructors that are not float ranges with a NaN bound.
C11_CoverageReflexiveNoNaN ==
    pc = "covered" =>
        \A i \in 1..3 :
            (ComparableCtor(ctors[i]) /\ ~IsNaNRange(ctors[i])) => cover[i][i] = Returns(TRUE)

\* C12: for non-synthetic constructors a, b, c of one type, if a.is_covered_by(b) and
\* b.is_covered_by(c) return true then so does a.is_covered_by(c).
C12_CoverageTransitive ==
    (pc = "covered" /\ \A i \in 1..3 : ComparableCtor(ctors[i])) =>
        ((cover[1][2] = Returns(TRUE) /\ cover[2][3] = Returns(TRUE))
            => cover[1][3] = Returns(TRUE))

\* C12 for the constructors that are not slices.
C12_CoverageTransitiveNoSlice ==
    (pc = "covered" /\ \A i \in 1..3 : ComparableCtor(ctors[i]) /\ ctors[i].tag # "Slice") =>
        ((cover[1][2] = Returns(TRUE) /\ cover[2][3] = Returns(TRUE))
            => cover[1][3] = Returns(TRUE))

\* C13 as stated: is_covered_by panics whenever `self` or `other` is Or.
C13_AsStated ==
    pc = "covered" =>
        \A i, j \in 1..3 : (ctors[i].tag = "Or" \/ ctors[j].tag = "Or") => cover[i][j] = SpanBug

\* C13, amended: with Or on one side, is_covered_by returns true for (Or, Wildcard),
\* returns false for (Missing | NonExhaustive | Hidden, Or), (Or, Opaque) and (Opaque, Or),
\* and panics for every other pair.
C13_OrInCoverage ==
    pc = "covered" =>
        \A i, j \in 1..3 :
            (ctors[i].tag = "Or" \/ ctors[j].tag = "Or") =>
                cover[i][j] =
                    IF ctors[i].tag = "Or" /\ ctors[j].tag = "Wildcard" THEN Returns(TRUE)
                    ELSE IF ctors[i].tag \in SyntheticTags THEN Returns(FALSE)
                    ELSE IF ctors[i].tag = "Wildcard" THEN SpanBug
                    ELSE IF ctors[i].tag = "Opaque" \/ ctors[j].tag = "Opaque"
                        THEN Returns(FALSE)
                    ELSE SpanBug

\* Or has been compared with a Wildcard, with an Opaque and with itself.
C13_Witness ==
    /\ pc = "covered"
    /\ ctors[1].tag = "Or" /\ ctors[2].tag = "Wildcard" /\ ctors[3].tag = "Opaque"
    /\ cover[1][2] = Returns(TRUE)
    /\ cover[1][3] = Returns(FALSE)
    /\ cover[1][1] = SpanBug

(***************************************************************************)
(* Claims about Opaque constructors                                        *)
(***************************************************************************)
\* The Opaque elements of a sequence of constructors, in order.
OpaquesIn(seq) == SelectSeq(seq, LAMBDA c : c.tag = "Opaque")
\* The sequence without its Opaque elements.
WithoutOpaques(seq) == SelectSeq(seq, LAMBDA c : c.tag # "Opaque")

\* C14: ConstructorSet::split puts each Opaque of the column into `present` unchanged
\* (and nothing else that is Opaque), and returns the `missing` list, and the rest of
\* `present`, that it returns for the column with its Opaque elements removed.
C14_OpaquesGoToPresentOnly ==
    pc = "split" =>
        /\ OpaquesIn(present) = OpaquesIn(ctors)
        /\ OpaquesIn(missing) = <<>>
        /\ missing = ConstructorSet_split(ctor_set, cx, WithoutOpaques(ctors)).missing
        /\ WithoutOpaques(present)
                = ConstructorSet_split(ctor_set, cx, WithoutOpaques(ctors)).present

\* A column with two Opaque constructors and another constructor has been split, with
\* something missing.
C14_Witness ==
    /\ pc = "split"
    /\ Len(OpaquesIn(ctors)) = 2
    /\ OpaquesIn(ctors)[1] # OpaquesIn(ctors)[2]
    /\ \E c \in Range(ctors) : c.tag \notin {"Opaque", "Wildcard"}
    /\ WithoutOpaques(present) # <<>>
    /\ missing # <<>>

(***************************************************************************)
(* SpecOpaque: threads call OpaqueId::new concurrently                     *)
(***************************************************************************)
\* The number of threads, and the calls of OpaqueId::new each of them makes.
NumThreads == 2
MaxCalls == 2

Threads == 1..NumThreads

U32Lt(a, b) == a[1] < b[1] \/ (a[1] = b[1] /\ a[2] < b[2])

\* u32::MAX - 1
U32_MAX_minus_one == <<LimbBase - 1, LimbBase - 2>>

\* The process has made `before` calls of OpaqueId::new so far, none of them running: the
\* counter, which starts at 0, holds `before`, and the ids below it have been returned.
InitOpaque ==
    /\ OPAQUE_ID \in {U32(0), U32(1), U32_MAX_minus_one, U32_MAX}
    /\ issued = [before |-> OPAQUE_ID, ids |-> <<>>]
    /\ callers = [t \in Threads |-> [pc |-> "idle", fetched |-> U32(0), calls |-> MaxCalls]]
    /\ ty = TyNever
    /\ cx = [precise_pointer_size_matching |-> FALSE, exhaustive_patterns |-> FALSE,
             is_top_level |-> FALSE]
    /\ ctor_set = ConstructorSet_Uninhabited
    /\ ctors = <<>>
    /\ present = <<>>
    /\ missing = <<>>
    /\ pc = "idle"
    /\ cover = <<>>
    /\ ArithIdle
    /\ PatIdle
    /\ IntIdle
    /\ SliceIdle

\* Thread t, in OpaqueId::new, executes OPAQUE_ID.fetch_add(1, Ordering::SeqCst): one
\* atomic read-modify-write.
FetchAdd(t) ==
    /\ callers[t].pc = "idle"
    /\ callers[t].calls > 0
    /\ LET drawn == OpaqueId_new(OPAQUE_ID)
       IN /\ OPAQUE_ID' = drawn.OPAQUE_ID
          /\ callers' = [callers EXCEPT ![t] = [pc |-> "fetched", fetched |-> drawn.id,
                                                calls |-> @.calls - 1]]
    /\ UNCHANGED issued
    /\ UNCHANGED <<ty, cx, ctor_set, ctors, present, missing, pc, cover>>
    /\ UNCHANGED arithVars
    /\ UNCHANGED patVars
    /\ UNCHANGED intVars
    /\ UNCHANGED sliceVars

\* Thread t returns OpaqueId(value fetched) to its caller.
ReturnId(t) ==
    /\ callers[t].pc = "fetched"
    /\ issued' = [issued EXCEPT !.ids = Append(@, callers[t].fetched)]
    /\ callers' = [callers EXCEPT ![t].pc = "idle"]
    /\ UNCHANGED <<ty, cx, ctor_set, OPAQUE_ID, ctors, present, missing, pc, cover>>
    /\ UNCHANGED arithVars
    /\ UNCHANGED patVars
    /\ UNCHANGED intVars
    /\ UNCHANGED sliceVars

NextOpaque == \E t \in Threads : FetchAdd(t) \/ ReturnId(t)

SpecOpaque == InitOpaque /\ [][NextOpaque]_vars

(***************************************************************************)
(* Claims about OpaqueId::new                                              *)
(***************************************************************************)
\* The id was returned by a call made before the run.
ReturnedBefore(id) == U32Lt(id, issued.before)

\* C15: every call of OpaqueId::new, under any interleaving of the callers, returns an id
\* that no other call of the process has returned, so that Opaque constructors made by
\* different calls never compare equal.
C15_OpaqueIdsUnique ==
    callers # <<>> =>
        /\ \A i \in 1..Len(issued.ids) : ~ReturnedBefore(issued.ids[i])
        /\ \A i, j \in 1..Len(issued.ids) :
                i # j => is_covered_by(Opaque(issued.ids[i]), Opaque(issued.ids[j]))
                            = Returns(FALSE)

\* C15 while the process has made at most 2^32 calls: the counter has not come back to
\* a value it has held.
C15_OpaqueIdsUniqueBeforeWrap ==
    (callers # <<>> /\ \A i \in 1..Len(issued.ids) : ~ReturnedBefore(issued.ids[i])) =>
        \A i, j \in 1..Len(issued.ids) :
            i # j => is_covered_by(Opaque(issued.ids[i]), Opaque(issued.ids[j]))
                        = Returns(FALSE)

\* Two threads have fetched an id each before either has returned, and all calls are done.
C15_Witness ==
    /\ callers # <<>>
    /\ Len(issued.ids) = NumThreads * MaxCalls
    /\ issued.before = U32(1)
    /\ issued.ids[1] = U32(2) /\ issued.ids[2] = U32(1)

(***************************************************************************)
(* SpecArith: MaybeInfiniteInt::new_finite on two values of an integer     *)
(* type, and plus_one / minus_one applied in sequence to a value.          *)
(***************************************************************************)
MaxSteps == 2

\* The integer types and char.
IntTys ==
    {TyInt(8, FALSE), TyInt(16, FALSE), TyInt(32, FALSE), TyInt(64, FALSE), TyInt(128, FALSE),
     TyInt(64, TRUE), TyUint(8, FALSE), TyUint(32, FALSE), TyUint(64, FALSE),
     TyUint(128, FALSE), TyUint(64, TRUE), TyChar}

\* Bit patterns of values of the type, as eval_bits returns them: around zero, around the
\* sign bit and around the all-ones pattern.
BitsOf(t) ==
    IF t.kind = "Char" THEN {U128(0), U128(97), U128(55295), U128(57344),
                              [U128(65535) EXCEPT ![NumLimbs - 1] = 16]}
    ELSE {U128_ZERO, U128(1),
          checked_sub_one(U128Shl1(t.bits - 1))[1], U128Shl1(t.bits - 1),
          checked_add_one(U128Shl1(t.bits - 1))[1],
          checked_sub_one(U128Truncate(t.bits))[1], U128Truncate(t.bits)}

\* The values plus_one and minus_one are applied to.
MaybeInfiniteInts ==
    {NegInfinity, Finite(U128_ZERO), Finite(U128(1)), Finite(U128Shl1(64)),
     Finite(checked_sub_one(U128_MAX)[1]), Finite(U128_MAX), JustAfterMax, PosInfinity}

InitArith ==
    /\ calc \in [ty : IntTys, x : UNION {BitsOf(t) : t \in IntTys},
                  y : UNION {BitsOf(t) : t \in IntTys}, val : MaybeInfiniteInts,
                  encoded : {<<>>}, steps : {<<>>}]
    /\ calc.x \in BitsOf(calc.ty)
    /\ calc.y \in BitsOf(calc.ty)
    /\ ty = TyNever
    /\ cx = [precise_pointer_size_matching |-> FALSE, exhaustive_patterns |-> FALSE,
             is_top_level |-> FALSE]
    /\ ctor_set = ConstructorSet_Uninhabited
    /\ OPAQUE_ID = U32(0)
    /\ ctors = <<>>
    /\ present = <<>>
    /\ missing = <<>>
    /\ pc = "idle"
    /\ cover = <<>>
    /\ OpaqueIdle
    /\ PatIdle
    /\ IntIdle
    /\ SliceIdle

\* MaybeInfiniteInt::new_finite(tcx, ty, bits), on x and then on y.
CallNewFinite ==
    /\ Len(calc.encoded) < 2
    /\ LET bits == IF calc.encoded = <<>> THEN calc.x ELSE calc.y
       IN calc' = [calc EXCEPT !.encoded =
                        Append(@, [bits |-> bits, ret |-> new_finite(calc.ty, bits)])]
    /\ UNCHANGED <<ty, cx, ctor_set, OPAQUE_ID, ctors, present, missing, pc, cover>>
    /\ UNCHANGED opaqueVars
    /\ UNCHANGED patVars
    /\ UNCHANGED intVars
    /\ UNCHANGED sliceVars

\* The value the next call of plus_one or minus_one is applied to: what the last call
\* returned.
CurrentValue == IF calc.steps = <<>> THEN calc.val ELSE calc.steps[Len(calc.steps)].ret

\* A call has hit bug!(): the thread unwinds and makes no further call.
Panicked == CurrentValue = Bug

CallPlusOne ==
    /\ Len(calc.steps) < MaxSteps
    /\ ~Panicked
    /\ calc' = [calc EXCEPT !.steps = Append(@, [fn |-> "plus_one", arg |-> CurrentValue,
                                                  ret |-> plus_one(CurrentValue)])]
    /\ UNCHANGED <<ty, cx, ctor_set, OPAQUE_ID, ctors, present, missing, pc, cover>>
    /\ UNCHANGED opaqueVars
    /\ UNCHANGED patVars
    /\ UNCHANGED intVars
    /\ UNCHANGED sliceVars

CallMinusOne ==
    /\ Len(calc.steps) < MaxSteps
    /\ ~Panicked
    /\ calc' = [calc EXCEPT !.steps = Append(@, [fn |-> "minus_one", arg |-> CurrentValue,
                                                  ret |-> minus_one(CurrentValue)])]
    /\ UNCHANGED <<ty, cx, ctor_set, OPAQUE_ID, ctors, present, missing, pc, cover>>
    /\ UNCHANGED opaqueVars
    /\ UNCHANGED patVars
    /\ UNCHANGED intVars
    /\ UNCHANGED sliceVars

NextArith == CallNewFinite \/ CallPlusOne \/ CallMinusOne

SpecArith == InitArith /\ [][NextArith]_vars

(***************************************************************************)
(* Claims about MaybeInfiniteInt                                           *)
(***************************************************************************)
\* The bit pattern, of a signed type of width `bits`, denotes a negative value.
IsNegative(bits, a) == U128Le(U128Shl1(bits - 1), a)

\* The signed order of two's-complement bit patterns of width `bits`.
SignedLt(bits, a, b) ==
    IF IsNegative(bits, a) # IsNegative(bits, b) THEN IsNegative(bits, a) ELSE U128Lt(a, b)

\* C16: for a signed integer type, new_finite is order-preserving: x < y in the signed
\* order iff new_finite(x) < new_finite(y) in the order of the encoded values; for an
\* unsigned type and for char, new_finite(x) is Finite(x).
C16_BiasIsMonotone ==
    calc # <<>> =>
        \A i, j \in 1..Len(calc.encoded) :
            LET a == calc.encoded[i]
                b == calc.encoded[j]
            IN IF calc.ty.kind = "Int"
               THEN /\ a.ret.tag = "Finite"
                    /\ SignedLt(calc.ty.bits, a.bits, b.bits)
                            <=> MaybeInfiniteInt_lt(a.ret, b.ret)
                    /\ SignedLt(calc.ty.bits, a.bits, b.bits) <=> U128Lt(a.ret.n, b.ret.n)
               ELSE a.ret = Finite(a.bits)

\* i8: -128 and 127 have been encoded, as 0 and 255.
C16_Witness ==
    /\ calc # <<>>
    /\ calc.ty = TyInt(8, FALSE)
    /\ Len(calc.encoded) = 2
    /\ calc.encoded[1] = [bits |-> U128(128), ret |-> Finite(U128(0))]
    /\ calc.encoded[2] = [bits |-> U128(127), ret |-> Finite(U128(255))]

IsInfinity(v) == v.tag \in {"NegInfinity", "PosInfinity"}

\* What C17 says of each call, but for the round trip that starts with minus_one.
C17_Common(s) ==
    /\ (s.fn = "plus_one" /\ s.arg.tag = "Finite") => minus_one(s.ret) = s.arg
    /\ (s.fn = "plus_one" /\ s.arg = Finite(U128_MAX)) => s.ret = JustAfterMax
    /\ (s.fn = "minus_one" /\ s.arg = JustAfterMax) => s.ret = Finite(U128_MAX)
    /\ s.arg.tag = "Finite" => ~IsInfinity(s.ret)
    /\ IsInfinity(s.arg) => s.ret = s.arg

\* C17 as stated: plus_one and minus_one are mutual inverses on every finite value,
\* plus_one(Finite(MAX)) = JustAfterMax, minus_one(JustAfterMax) = Finite(MAX), and neither
\* maps a finite value to an infinity or an infinity to a finite value.
C17_AsStated ==
    calc # <<>> =>
        \A i \in 1..Len(calc.steps) :
            LET s == calc.steps[i]
            IN /\ C17_Common(s)
               /\ (s.fn = "minus_one" /\ s.arg.tag = "Finite") => plus_one(s.ret) = s.arg

\* C17, amended: minus_one(plus_one(Finite(n))) = Finite(n) for every n;
\* plus_one(minus_one(Finite(n))) = Finite(n) for every n > 0, and minus_one(Finite(0)) is
\* bug!(); plus_one(Finite(MAX)) = JustAfterMax, minus_one(JustAfterMax) = Finite(MAX);
\* neither maps a finite value to an infinity or an infinity to a finite value.
C17_InversesAboveZero ==
    calc # <<>> =>
        \A i \in 1..Len(calc.steps) :
            LET s == calc.steps[i]
            IN /\ C17_Common(s)
               /\ (s.fn = "minus_one" /\ s.arg.tag = "Finite" /\ s.arg.n # U128_ZERO)
                        => plus_one(s.ret) = s.arg
               /\ (s.fn = "minus_one" /\ s.arg = Finite(U128_ZERO)) => s.ret = Bug
               /\ (i < Len(calc.steps) /\ calc.steps[i + 1].fn # s.fn
                        /\ s.arg.tag = "Finite")
                        => calc.steps[i + 1].ret = s.arg

\* plus_one has taken Finite(u128::MAX) to JustAfterMax and minus_one has taken it back.
C17_Witness ==
    /\ calc # <<>>
    /\ Len(calc.steps) = 2
    /\ calc.steps[1] = [fn |-> "plus_one", arg |-> Finite(U128_MAX), ret |-> JustAfterMax]
    /\ calc.steps[2] = [fn |-> "minus_one", arg |-> JustAfterMax, ret |-> Finite(U128_MAX)]

\* minus_one has taken Finite(1) to Finite(0) and plus_one has taken it back.
C17_WitnessFromBelow ==
    /\ calc # <<>>
    /\ Len(calc.steps) = 2
    /\ calc.steps[1] = [fn |-> "minus_one", arg |-> Finite(U128(1)),
                         ret |-> Finite(U128_ZERO)]
    /\ calc.steps[2] = [fn |-> "plus_one", arg |-> Finite(U128_ZERO),
                         ret |-> Finite(U128(1))]

(***************************************************************************)
(* Claims about is_beyond_boundaries                                       *)
(***************************************************************************)
\* 0..=u32::MAX, as from_pat lowers it: [0, u32::MAX + 1).
UpToU32Max == IntRange(Finite(U128_ZERO), Finite(U128Shl1(32)))

\* usize, without precise pointer-size matching, and the column is {0..=u32::MAX}.
C18_Case ==
    /\ pc = "split"
    /\ ty.kind = "Uint"
    /\ ty.ptr_sized
    /\ ~cx.precise_pointer_size_matching
    /\ ctors = <<CtorIntRange(UpToU32Max)>>

\* The split is the Seen range [0, u32::MAX + 1) and the Unseen tail [u32::MAX + 1, +inf).
C18_SplitInTwo ==
    /\ present = <<CtorIntRange(UpToU32Max)>>
    /\ missing = <<CtorIntRange(IntRange(Finite(U128Shl1(32)), PosInfinity))>>

\* C18 as stated: without the precise-pointer-size feature, the usize wildcard [0, +inf)
\* split by the column {0..=u32::MAX} yields Seen [0, u32::MAX + 1) then Unseen
\* [u32::MAX + 1, +inf), and is_beyond_boundaries returns true for the Unseen tail.
C18_AsStated ==
    C18_Case => (C18_SplitInTwo /\ (calc # <<>> => calc = <<TRUE>>))

\* C18, amended: the split is as stated; is_beyond_boundaries returns true for the tail
\* where usize is at most 32 bits wide, so that u32::MAX + 1 is not a usize, and false
\* where usize is wider, the tail then holding values of the type.
C18_TailBeyondIffNotAUsize ==
    C18_Case => (C18_SplitInTwo /\ (calc # <<>> => calc = <<ty.bits <= 32>>))

\* usize of 32 bits: the tail has been found beyond the boundaries.
C18_Witness ==
    /\ C18_Case
    /\ ty.bits = 32
    /\ C18_SplitInTwo
    /\ calc = <<TRUE>>

\* usize of 64 bits: the tail has been found within the boundaries.
C18_Witness64 ==
    /\ C18_Case
    /\ ty.bits = 64
    /\ C18_SplitInTwo
    /\ calc = <<FALSE>>

(***************************************************************************)
(* Types with their fields                                                 *)
(***************************************************************************)
\* The type has no value.
IsEmpty(t) == t.kind = "Never" \/ (t.kind \in {"Adt", "Tuple", "Ref"} /\ t.uninhabited)

\* A field of a variant: its type, and field.vis.is_accessible_from(cx.module, cx.tcx).
FieldDef(t, is_visible) == [ty |-> t, is_visible |-> is_visible]

\* A tuple type with the types of its fields.
TyTupleOf(fs) ==
    [kind |-> "Tuple", uninhabited |-> \E i \in 1..Len(fs) : IsEmpty(fs[i]), fs |-> fs]

\* &rty
TyRefTo(rty) == [kind |-> "Ref", uninhabited |-> IsEmpty(rty), rty |-> rty]

\* Box<T>: args.type_at(0) is T.
TyBoxOf(t) ==
    [kind |-> "Adt", is_enum |-> FALSE, is_box |-> TRUE, uninhabited |-> IsEmpty(t),
     is_local |-> FALSE, type_at_0 |-> t]

\* A struct: the fields of its one variant, whether the definition is local, and whether
\* the field list is #[non_exhaustive].
TyStructOf(fields, is_local, is_field_list_non_exhaustive) ==
    [kind |-> "Adt", is_enum |-> FALSE, is_box |-> FALSE,
     uninhabited |-> \E i \in 1..Len(fields) : IsEmpty(fields[i].ty),
     is_local |-> is_local,
     variants |-> <<[fields |-> fields,
                     is_field_list_non_exhaustive |-> is_field_list_non_exhaustive]>>]

\* An enum whose variants carry fields.
TyEnumOf(variants, is_local) ==
    [kind |-> "Adt", is_enum |-> TRUE, is_box |-> FALSE,
     uninhabited |-> \A i \in 1..Len(variants) :
                        \E j \in 1..Len(variants[i].fields) : IsEmpty(variants[i].fields[j].ty),
     foreign_non_exhaustive |-> FALSE,
     is_local |-> is_local, variants |-> variants]

\* A variant of TyEnumOf.
VariantOf(fields, is_field_list_non_exhaustive) ==
    [fields |-> fields, is_field_list_non_exhaustive |-> is_field_list_non_exhaustive,
     inhabited |-> \A j \in 1..Len(fields) : ~IsEmpty(fields[j].ty),
     is_unstable |-> FALSE, is_doc_hidden |-> FALSE, is_local |-> TRUE]

\* [elem; len] and [elem]
TyArrayOf(elem, len) ==
    [kind |-> "Array", len |-> Some(len), elem_uninhabited |-> IsEmpty(elem), elem |-> elem]
TySliceOf(elem) == [kind |-> "Slice", elem_uninhabited |-> IsEmpty(elem), elem |-> elem]

(***************************************************************************)
(* Fields and Constructor::arity                                           *)
(***************************************************************************)
\* What a function that can hit bug!() gives: the value it returns, or the panic.
Ok(v) == [panic |-> FALSE, ret |-> v]
BugArity == [panic |-> TRUE, ret |-> 0]

\* Constructor::variant_index_for_adt; None for bug!() and for the failed assert!.
variant_index_for_adt(ctor, adt) ==
    CASE ctor.tag = "Variant" -> Some(ctor.idx)
      [] ctor.tag = "Single" -> IF adt.is_enum THEN None ELSE Some(0)
      [] OTHER -> None

\* The fields the filter_map of list_variant_nonhidden_fields keeps among fields[i..],
\* with their indices.
RECURSIVE nonhidden_from(_, _, _, _, _)
nonhidden_from(c, t, variant, i, is_non_exhaustive) ==
    IF i > Len(variant.fields) THEN <<>>
    ELSE LET field == variant.fields[i]
             is_visible == t.is_enum \/ field.is_visible
         IN (IF is_uninhabited(c, field.ty) /\ (~is_visible \/ is_non_exhaustive)
             THEN <<>>
             ELSE <<[field |-> i - 1, ty |-> field.ty]>>)
                \o nonhidden_from(c, t, variant, i + 1, is_non_exhaustive)

\* A mutant of list_variant_nonhidden_fields: no field is hidden.
list_variant_all_fields(c, t, variant) ==
    [i \in 1..Len(variant.fields) |-> [field |-> i - 1, ty |-> variant.fields[i].ty]]

list_variant_nonhidden_fields(c, t, variant) ==
    nonhidden_from(c, t, variant, 1, variant.is_field_list_non_exhaustive /\ ~t.is_local)

\* A mutant of arity: a struct or a variant has the arity of its declared field list.
arity_of_declared_fields(ctor, c, t) ==
    CASE ctor.tag \in {"Single", "Variant"} ->
            (CASE t.kind = "Tuple" -> Ok(Len(t.fs))
               [] t.kind = "Ref" -> Ok(1)
               [] t.kind = "Adt" ->
                    (IF t.is_box THEN Ok(1)
                     ELSE IF variant_index_for_adt(ctor, t) = None THEN BugArity
                     ELSE Ok(Len(t.variants[variant_index_for_adt(ctor, t)[1] + 1].fields)))
               [] OTHER -> BugArity)
      [] ctor.tag = "Slice" -> Ok(Slice_arity(ctor.slice))
      [] ctor.tag = "Or" -> BugArity
      [] OTHER -> Ok(0)

\* Constructor::arity
arity(ctor, c, t) ==
    CASE ctor.tag \in {"Single", "Variant"} ->
            (CASE t.kind = "Tuple" -> Ok(Len(t.fs))
               [] t.kind = "Ref" -> Ok(1)
               [] t.kind = "Adt" ->
                    (IF t.is_box THEN Ok(1)
                     ELSE IF variant_index_for_adt(ctor, t) = None THEN BugArity
                     ELSE Ok(Len(list_variant_nonhidden_fields(
                                    c, t, t.variants[variant_index_for_adt(ctor, t)[1] + 1]))))
               [] OTHER -> BugArity)
      [] ctor.tag = "Slice" -> Ok(Slice_arity(ctor.slice))
      [] ctor.tag = "Or" -> BugArity
      [] OTHER -> Ok(0)

(***************************************************************************)
(* DeconstructedPat and the pattern arena                                  *)
(***************************************************************************)
\* Spans are told apart by the path of the pattern in the match arm; DUMMY_SP is the
\* empty path.
DUMMY_SP == <<>>

\* A mutant of DeconstructedPat_new: the pattern is born reachable.
DeconstructedPat_new_reachable(ctor, fields, t, span) ==
    [ctor |-> ctor, fields |-> fields, ty |-> t, span |-> span, reachable |-> TRUE]

\* DeconstructedPat::new; fields is the slice of the arena, as the indices of its patterns.
DeconstructedPat_new(ctor, fields, t, span) ==
    [ctor |-> ctor, fields |-> fields, ty |-> t, span |-> span, reachable |-> FALSE]

\* DeconstructedPat::wildcard
wildcard(t, span) == DeconstructedPat_new(Wildcard, <<>>, t, span)

\* cx.pattern_arena.alloc_from_iter(pats): the arena after it, and the Fields over the
\* patterns allocated.
alloc_from_iter(arena, pats) ==
    [arena |-> arena \o pats, fields |-> [i \in 1..Len(pats) |-> Len(arena) + i]]

\* Fields::wildcards_from_tys
wildcards_from_tys(arena, tys) ==
    alloc_from_iter(arena, [i \in 1..Len(tys) |-> wildcard(tys[i], DUMMY_SP)])

\* The element type of an array or a slice.
inner_ty(t) == t.elem

\* Fields::wildcards(pcx, constructor), for pcx.ty = t; the arena is left as it was when
\* the function hits bug!().
Fields_wildcards(arena, c, t, constructor) ==
    LET BugFields == [panic |-> TRUE, arena |-> arena, fields |-> <<>>]
        Fields(made) == [panic |-> FALSE, arena |-> made.arena, fields |-> made.fields]
    IN CASE constructor.tag \in {"Single", "Variant"} ->
            (CASE t.kind = "Tuple" -> Fields(wildcards_from_tys(arena, t.fs))
               [] t.kind = "Ref" -> Fields(wildcards_from_tys(arena, <<t.rty>>))
               [] t.kind = "Adt" ->
                    (IF t.is_box THEN Fields(wildcards_from_tys(arena, <<t.type_at_0>>))
                     ELSE IF variant_index_for_adt(constructor, t) = None THEN BugFields
                     ELSE LET variant ==
                                t.variants[variant_index_for_adt(constructor, t)[1] + 1]
                              kept == list_variant_nonhidden_fields(c, t, variant)
                          IN Fields(wildcards_from_tys(
                                        arena, [i \in 1..Len(kept) |-> kept[i].ty])))
               [] OTHER -> BugFields)
         [] constructor.tag = "Slice" ->
            (IF t.kind \in {"Slice", "Array"}
             THEN Fields(wildcards_from_tys(
                            arena, [i \in 1..Slice_arity(constructor.slice) |-> inner_ty(t)]))
             ELSE BugFields)
         [] constructor.tag = "Or" -> BugFields
         [] OTHER -> Fields(alloc_from_iter(arena, <<>>))

(***************************************************************************)
(* Patterns with their sub-patterns, and DeconstructedPat::from_pat        *)
(***************************************************************************)
\* PatKind::Binding, with subpattern None or Some(pat)
PatBinding(subpattern) == [kind |-> "Binding", subpattern |-> subpattern]
\* PatKind::Deref
PatDerefOf(subpattern) == [kind |-> "Deref", subpattern |-> subpattern]
\* FieldPat
FieldPat(field, pattern) == [field |-> field, pattern |-> pattern]
\* PatKind::Leaf
PatLeafOf(subpatterns) == [kind |-> "Leaf", subpatterns |-> subpatterns]
\* PatKind::Variant
PatVariantOf(variant_index, subpatterns) ==
    [kind |-> "Variant", variant_index |-> variant_index, subpatterns |-> subpatterns]
\* PatKind::Slice and PatKind::Array; slice is whether there is a `..`
PatSliceOf(prefix, slice, suffix) ==
    [kind |-> "Slice", prefix |-> prefix, slice |-> slice, suffix |-> suffix]
\* PatKind::Or
PatOr(pats) == [kind |-> "Or", pats |-> pats]
\* PatKind::AscribeUserType
PatAscribeUserType(subpattern) == [kind |-> "AscribeUserType", subpattern |-> subpattern]

\* A mutant of expand: the or-patterns among the alternatives are not expanded.
expand_shallow(pat, span) ==
    IF pat.kind = "Or" THEN [i \in 1..Len(pat.pats) |-> [pat |-> pat.pats[i], span |-> span \o <<i>>]]
    ELSE <<[pat |-> pat, span |-> span]>>

\* expand_or_pat: the alternatives of the or-pattern, nested or-patterns expanded, each
\* with its span.
RECURSIVE expand(_, _)
RECURSIVE expand_from(_, _, _)
expand(pat, span) ==
    IF pat.kind = "Or" THEN expand_from(pat.pats, span, 1) ELSE <<[pat |-> pat, span |-> span]>>
expand_from(pats, span, i) ==
    IF i > Len(pats) THEN <<>>
    ELSE expand(pats[i], span \o <<i>>) \o expand_from(pats, span, i + 1)

expand_or_pat(pat, span) == expand(pat, span)

\* The last pattern made for field `field`, or the wildcard `wild` when there is none.
filled(field, subpatterns, made, wild) ==
    LET at == {k \in 1..Len(subpatterns) : subpatterns[k].field = field}
    IN IF at = {} THEN wild ELSE made[CHOOSE k \in at : \A j \in at : j <= k]

\* DeconstructedPat::from_pat(cx, pat) for a pattern of type t at the given span.  st
\* holds the arena and OPAQUE_ID; the result holds them after the call, and the
\* DeconstructedPat returned.
RECURSIVE from_pat(_, _, _, _, _)
RECURSIVE mkpats(_, _, _)
from_pat(st, c, pat, t, span) ==
    LET leaf(ctor, st2) ==
            [arena |-> st2.arena, OPAQUE_ID |-> st2.OPAQUE_ID,
             pat |-> DeconstructedPat_new(ctor, <<>>, t, span)]
        with_fields(ctor, st2, pats) ==
            LET made == alloc_from_iter(st2.arena, pats)
            IN [arena |-> made.arena, OPAQUE_ID |-> st2.OPAQUE_ID,
                pat |-> DeconstructedPat_new(ctor, made.fields, t, span)]
        drawn == OpaqueId_new(st.OPAQUE_ID)
        opaque == leaf(Opaque(drawn.id), [arena |-> st.arena, OPAQUE_ID |-> drawn.OPAQUE_ID])
    IN CASE pat.kind = "Wild" -> leaf(Wildcard, st)
         [] pat.kind \in {"AscribeUserType", "InlineConstant"} ->
                from_pat(st, c, pat.subpattern, t, span \o <<1>>)
         [] pat.kind = "Binding" ->
                IF pat.subpattern = None THEN leaf(Wildcard, st)
                ELSE from_pat(st, c, pat.subpattern[1], t, span \o <<1>>)
         [] pat.kind = "Deref" ->
                LET sub == from_pat(st, c, pat.subpattern,
                                    IF t.kind = "Ref" THEN t.rty ELSE t.type_at_0,
                                    span \o <<1>>)
                IN with_fields(Single, sub, <<sub.pat>>)
         [] pat.kind \in {"Leaf", "Variant"} /\ t.kind = "Tuple" ->
                LET subs == mkpats(st, c,
                                [k \in 1..Len(pat.subpatterns) |->
                                    [pat |-> pat.subpatterns[k].pattern,
                                     ty |-> t.fs[pat.subpatterns[k].field + 1],
                                     span |-> span \o <<k>>]])
                IN with_fields(Single, subs,
                        [i \in 1..Len(t.fs) |->
                            filled(i - 1, pat.subpatterns, subs.pats, wildcard(t.fs[i], span))])
         [] pat.kind \in {"Leaf", "Variant"} /\ t.kind = "Adt" /\ t.is_box ->
                LET at == {k \in 1..Len(pat.subpatterns) : pat.subpatterns[k].field = 0}
                    k == CHOOSE k \in at : \A j \in at : k <= j
                    sub == from_pat(st, c, pat.subpatterns[k].pattern, t.type_at_0,
                                    span \o <<k>>)
                IN IF at = {} THEN with_fields(Single, st, <<wildcard(t.type_at_0, span)>>)
                   ELSE with_fields(Single, sub, <<sub.pat>>)
         [] pat.kind \in {"Leaf", "Variant"} /\ t.kind = "Adt" /\ ~t.is_box ->
                LET ctor == IF pat.kind = "Leaf" THEN Single ELSE Variant(pat.variant_index)
                    variant == t.variants[variant_index_for_adt(ctor, t)[1] + 1]
                    kept == list_variant_nonhidden_fields(c, t, variant)
                    lowered == SelectSeq(pat.subpatterns,
                                    LAMBDA sp : \E i \in 1..Len(kept) : kept[i].field = sp.field)
                    subs == mkpats(st, c,
                                [k \in 1..Len(lowered) |->
                                    [pat |-> lowered[k].pattern,
                                     ty |-> variant.fields[lowered[k].field + 1].ty,
                                     span |-> span \o <<lowered[k].field + 1>>]])
                IN with_fields(ctor, subs,
                        [i \in 1..Len(kept) |->
                            filled(kept[i].field, lowered, subs.pats, wildcard(kept[i].ty, span))])
         [] pat.kind = "Constant" ->
                IF t.kind = "Ref" /\ t.rty.kind = "Str"
                THEN with_fields(Single, st,
                                 <<DeconstructedPat_new(Str(pat.value[1]), <<>>, t.rty, span)>>)
                ELSE IF from_pat_constant(t, pat.value, drawn.id).tag = "Opaque" THEN opaque
                ELSE leaf(from_pat_constant(t, pat.value, drawn.id), st)
         [] pat.kind = "Range" -> leaf(from_pat_range(t, pat.lo, pat.hi, pat.end), st)
         [] pat.kind = "Slice" ->
                LET subs == mkpats(st, c,
                                [k \in 1..(Len(pat.prefix) + Len(pat.suffix)) |->
                                    [pat |-> (pat.prefix \o pat.suffix)[k], ty |-> inner_ty(t),
                                     span |-> span \o <<k>>]])
                    kind == IF pat.slice THEN VarLen(Len(pat.prefix), Len(pat.suffix))
                            ELSE FixedLen(Len(pat.prefix) + Len(pat.suffix))
                IN with_fields(CtorSlice(Slice_new(IF t.kind = "Array" THEN t.len ELSE None,
                                                   kind)),
                               subs, subs.pats)
         [] pat.kind = "Or" ->
                LET pats == expand_or_pat(pat, span)
                    subs == mkpats(st, c, [k \in 1..Len(pats) |->
                                            [pat |-> pats[k].pat, ty |-> t,
                                             span |-> pats[k].span]])
                IN with_fields(Or, subs, subs.pats)
         [] pat.kind = "Error" -> opaque

\* iter.map(mkpat): from_pat on each pattern in turn.
mkpats(st, c, items) ==
    IF items = <<>> THEN [arena |-> st.arena, OPAQUE_ID |-> st.OPAQUE_ID, pats |-> <<>>]
    ELSE LET first == from_pat(st, c, Head(items).pat, Head(items).ty, Head(items).span)
             rest == mkpats([arena |-> first.arena, OPAQUE_ID |-> first.OPAQUE_ID], c,
                            Tail(items))
         IN [arena |-> rest.arena, OPAQUE_ID |-> rest.OPAQUE_ID,
             pats |-> <<first.pat>> \o rest.pats]

(***************************************************************************)
(* specialize and reachability                                             *)
(***************************************************************************)
\* self.specialize(pcx, other_ctor) for the pattern at index `self` of the arena and
\* pcx.ty = t: the arena after the call and the indices of the patterns returned.  The
\* subtraction of the arities panics on overflow when other_slice is the shorter.
specialize(arena, c, t, self, other_ctor) ==
    LET me == arena[self]
        Bugged == [panic |-> TRUE, arena |-> arena, ret |-> <<>>]
        made == Fields_wildcards(arena, c, t, other_ctor)
    IN IF me.ctor.tag = "Wildcard"
       THEN [panic |-> made.panic, arena |-> made.arena, ret |-> made.fields]
       ELSE IF /\ me.ctor.tag = "Slice"
               /\ other_ctor.tag = "Slice"
               /\ Slice_arity(me.ctor.slice) # Slice_arity(other_ctor.slice)
       THEN (IF me.ctor.slice.kind.tag = "FixedLen" THEN Bugged
             ELSE IF me.ty.kind \notin {"Slice", "Array"} THEN Bugged
             ELSE IF Slice_arity(other_ctor.slice) < Slice_arity(me.ctor.slice) THEN Bugged
             ELSE LET prefix == SubSeq(me.fields, 1, me.ctor.slice.kind.prefix)
                      suffix == SubSeq(me.fields,
                                       Slice_arity(me.ctor.slice) - me.ctor.slice.kind.suffix + 1,
                                       Len(me.fields))
                      extra_wildcards ==
                            Slice_arity(other_ctor.slice) - Slice_arity(me.ctor.slice)
                  IN [panic |-> FALSE,
                      arena |-> Append(arena, wildcard(inner_ty(me.ty), DUMMY_SP)),
                      ret |-> prefix \o [i \in 1..extra_wildcards |-> Len(arena) + 1]
                                  \o suffix])
       ELSE [panic |-> FALSE, arena |-> arena, ret |-> me.fields]

\* A mutant of set_reachable: the flag is toggled.
set_reachable_toggle(arena, self) ==
    [arena EXCEPT ![self].reachable = ~arena[self].reachable]

\* A mutant of is_reachable: only the pattern's own flag is looked at.
is_reachable_own_flag(arena, self) == [arena |-> arena, ret |-> arena[self].reachable]

\* self.set_reachable()
set_reachable(arena, self) == [arena EXCEPT ![self].reachable = TRUE]

\* self.is_reachable(): the value returned, and the arena with the flags the call has set.
RECURSIVE is_reachable(_, _)
RECURSIVE any_is_reachable(_, _, _)
\* A mutant of is_reachable: an or-pattern is marked whatever its alternatives answer.
is_reachable_marking(arena, self) ==
    IF arena[self].reachable THEN [arena |-> arena, ret |-> TRUE]
    ELSE IF arena[self].ctor.tag = "Or"
    THEN LET found == any_is_reachable(arena, arena[self].fields, 1)
         IN [arena |-> set_reachable(found.arena, self), ret |-> found.ret]
    ELSE [arena |-> arena, ret |-> FALSE]

is_reachable(arena, self) ==
    IF arena[self].reachable THEN [arena |-> arena, ret |-> TRUE]
    ELSE IF arena[self].ctor.tag = "Or"
    THEN LET found == any_is_reachable(arena, arena[self].fields, 1)
         IN IF found.ret THEN [arena |-> set_reachable(found.arena, self), ret |-> TRUE]
            ELSE [arena |-> found.arena, ret |-> FALSE]
    ELSE [arena |-> arena, ret |-> FALSE]

\* self.iter_fields().any(|f| f.is_reachable()), from the i-th field on: `any` stops at
\* the first field that is reachable.
any_is_reachable(arena, fields, i) ==
    IF i > Len(fields) THEN [arena |-> arena, ret |-> FALSE]
    ELSE LET first == is_reachable(arena, fields[i])
         IN IF first.ret THEN first ELSE any_is_reachable(first.arena, fields, i + 1)

\* A mutant of collect_unreachable_spans: the fields of a reachable pattern are not visited.
collect_unreachable_spans_shallow(arena, self, spans) ==
    LET asked == is_reachable(arena, self)
    IN [arena |-> asked.arena,
        spans |-> IF asked.ret THEN spans ELSE Append(spans, arena[self].span)]

\* self.collect_unreachable_spans(spans)
RECURSIVE collect_unreachable_spans(_, _, _)
RECURSIVE collect_from_fields(_, _, _, _)
collect_unreachable_spans(arena, self, spans) ==
    LET asked == is_reachable(arena, self)
    IN IF ~asked.ret
       THEN [arena |-> asked.arena, spans |-> Append(spans, arena[self].span)]
       ELSE collect_from_fields(asked.arena, arena[self].fields, 1, spans)

\* for p in self.iter_fields() { p.collect_unreachable_spans(spans) }, from the i-th field
collect_from_fields(arena, fields, i, spans) ==
    IF i > Len(fields) THEN [arena |-> arena, spans |-> spans]
    ELSE LET first == collect_unreachable_spans(arena, fields[i], spans)
         IN collect_from_fields(first.arena, fields, i + 1, first.spans)

\* self.unreachable_spans()
unreachable_spans(arena, self) == collect_unreachable_spans(arena, self, <<>>)

(***************************************************************************)
(* SpecPat: a pattern is lowered by from_pat into the arena; then the      *)
(* patterns of the arena are specialized, marked reachable and asked for   *)
(* their reachability, in any order.                                       *)
(***************************************************************************)
MaxArena == 5

\* A local struct with a private field of type `!`.
StructPrivate == TyStructOf(<<FieldDef(TyBool, TRUE), FieldDef(TyNever, FALSE)>>, TRUE, FALSE)
\* A foreign struct with a #[non_exhaustive] field list and a public field of type `!`.
StructForeign == TyStructOf(<<FieldDef(TyNever, TRUE), FieldDef(TyBool, TRUE)>>, FALSE, TRUE)
\* enum { A(bool, bool), B, C(!) }
EnumOfFields ==
    TyEnumOf(<<VariantOf(<<FieldDef(TyBool, TRUE), FieldDef(TyBool, TRUE)>>, FALSE),
               VariantOf(<<>>, FALSE),
               VariantOf(<<FieldDef(TyNever, FALSE)>>, FALSE)>>, TRUE)

\* The structs with a public and a private field of type `!` and a public and a private
\* field of type bool, the definition local or foreign, the field list #[non_exhaustive]
\* or not.
PolicyStructs ==
    {TyStructOf(<<FieldDef(TyNever, TRUE), FieldDef(TyNever, FALSE), FieldDef(TyBool, TRUE),
                  FieldDef(TyBool, FALSE)>>, is_local, non_exh) :
        is_local \in BOOLEAN, non_exh \in BOOLEAN}
\* A foreign enum { A(!, bool) } whose variant has a #[non_exhaustive] field list.
EnumForeignFields ==
    TyEnumOf(<<VariantOf(<<FieldDef(TyNever, TRUE), FieldDef(TyBool, TRUE)>>, TRUE)>>, FALSE)

PatTys ==
    {TyBool, TyUint(8, FALSE), TySliceOf(TyBool), TyArrayOf(TyBool, 3), StructPrivate,
     StructForeign, EnumOfFields, TyTupleOf(<<TyBool, TyUint(8, FALSE)>>), TyRefTo(TyStr),
     TyRefTo(TyBool), TyBoxOf(TyBool), EnumForeignFields} \cup PolicyStructs

PatCxs ==
    [precise_pointer_size_matching : {FALSE}, exhaustive_patterns : BOOLEAN,
     is_top_level : {FALSE}]

\* The patterns a match on a value of type t is drawn from.
PatsOf(t) ==
    LET T == PatConstant(Some(TRUE))
        F == PatConstant(Some(FALSE))
    IN {PatWild} \cup
       CASE t.kind = "Bool" ->
                {T, PatConstant(None), PatBinding(Some(F)), PatBinding(None), PatError,
                 PatOr(<<T, F>>), PatOr(<<T, PatOr(<<F, PatWild>>)>>),
                 PatOr(<<PatAscribeUserType(T), PatBinding(Some(PatOr(<<F, PatWild>>)))>>)}
         [] t.kind = "Uint" ->
                {LitRange(0, 100), PatOr(<<LitRange(0, 100), PatConstant(Some(U128(5)))>>)}
         [] t.kind = "Slice" ->
                {PatSliceOf(<<T>>, TRUE, <<PatWild>>), PatSliceOf(<<T, F>>, FALSE, <<>>),
                 PatSliceOf(<<>>, TRUE, <<>>),
                 PatOr(<<PatSliceOf(<<>>, FALSE, <<>>), PatSliceOf(<<PatWild>>, TRUE, <<>>)>>)}
         [] t.kind = "Array" ->
                {PatSliceOf(<<T>>, TRUE, <<F>>), PatSliceOf(<<T, F, T>>, FALSE, <<>>),
                 PatSliceOf(<<T, F>>, TRUE, <<PatWild>>)}
         [] t = EnumForeignFields -> {PatVariantOf(0, <<FieldPat(1, T)>>)}
         [] t \in PolicyStructs -> {PatLeafOf(<<>>)}
         [] t.kind = "Adt" /\ t.is_enum /\ t # EnumForeignFields ->
                {PatVariantOf(0, <<FieldPat(1, T)>>),
                 PatVariantOf(0, <<FieldPat(0, T), FieldPat(1, PatOr(<<T, F>>))>>),
                 PatVariantOf(2, <<FieldPat(0, PatWild)>>),
                 PatOr(<<PatVariantOf(1, <<>>), PatVariantOf(2, <<>>)>>)}
         [] t.kind = "Adt" /\ t.is_box ->
                {PatDerefOf(T), PatLeafOf(<<FieldPat(0, F)>>), PatLeafOf(<<>>)}
         [] t.kind = "Adt" /\ ~t.is_enum /\ ~t.is_box /\ t \notin PolicyStructs ->
                {PatLeafOf(<<FieldPat(0, PatWild), FieldPat(1, T)>>), PatLeafOf(<<>>),
                 PatLeafOf(<<FieldPat(1, PatWild)>>), PatConstant(None)}
         [] t.kind = "Tuple" ->
                {PatLeafOf(<<FieldPat(1, LitRange(0, 100))>>),
                 PatLeafOf(<<FieldPat(0, PatOr(<<T, F>>)), FieldPat(1, PatWild)>>)}
         [] t.kind = "Ref" ->
                IF t.rty.kind = "Str" THEN {PatConstant(Some("a"))}
                ELSE {PatDerefOf(T), PatDerefOf(PatOr(<<T, F>>))}

\* The constructors a pattern of type t is specialized with.
CtorsFor(t) ==
    {Or, Wildcard, Missing, Opaque(U32(0))} \cup
    CASE t.kind = "Bool" -> {Bool(TRUE), Bool(FALSE)}
      [] t.kind = "Uint" ->
            {CtorIntRange(IntRange(Finite(U128(0)), Finite(U128(5)))),
             CtorIntRange(IntRange(Finite(U128(5)), Finite(U128(6))))}
      [] t.kind = "Slice" ->
            {CtorSlice(Slice_new(None, kind)) :
                kind \in {FixedLen(0), FixedLen(1), FixedLen(2), FixedLen(3), VarLen(1, 1),
                          VarLen(2, 1)}}
      [] t.kind = "Array" ->
            {CtorSlice(Slice_new(t.len, kind)) : kind \in {FixedLen(t.len[1]), VarLen(0, 0)}}
      [] t.kind = "Adt" /\ t.is_enum -> {Variant(i - 1) : i \in 1..Len(t.variants)}
      [] t.kind = "Str" -> {Str("a"), Str("b")}
      [] t.kind \in {"Adt", "Tuple", "Ref"} -> {Single}
      [] OTHER -> {}

InitPat ==
    /\ ty \in PatTys
    /\ cx \in PatCxs
    /\ ctor_set = ConstructorSet_Uninhabited
    /\ OPAQUE_ID = U32(0)
    /\ ctors = <<>>
    /\ present = <<>>
    /\ missing = <<>>
    /\ pc = "lower"
    /\ cover = <<>>
    /\ pattern_arena = <<>>
    /\ pat_call = <<>>
    /\ OpaqueIdle
    /\ ArithIdle
    /\ IntIdle
    /\ SliceIdle

\* A call has hit bug!().
PatPanicked == pc = "lowered" /\ pat_call.fn = "specialize" /\ pat_call.panic

\* cx.pattern_arena.alloc(DeconstructedPat::from_pat(cx, pat))
FromPat ==
    /\ pc = "lower"
    /\ \E pat \in PatsOf(ty) :
        LET made == from_pat([arena |-> pattern_arena, OPAQUE_ID |-> OPAQUE_ID], cx, pat,
                             ty, <<1>>)
        IN /\ pattern_arena' = Append(made.arena, made.pat)
           /\ OPAQUE_ID' = made.OPAQUE_ID
           /\ pat_call' = [fn |-> "from_pat", self |-> Len(made.arena) + 1, pat |-> pat]
    /\ pc' = "lowered"
    /\ UNCHANGED <<ty, cx, ctor_set, ctors, present, missing, cover>>
    /\ UNCHANGED opaqueVars
    /\ UNCHANGED arithVars
    /\ UNCHANGED intVars
    /\ UNCHANGED sliceVars

\* pattern_arena[self].specialize(pcx, other_ctor), other_ctor being covered by the
\* pattern's constructor, as the caller has checked with is_covered_by.
Specialize(self, other_ctor) ==
    /\ pc = "lowered"
    /\ ~PatPanicked
    /\ is_covered_by(other_ctor, pattern_arena[self].ctor) = Returns(TRUE)
    /\ LET out == specialize(pattern_arena, cx, pattern_arena[self].ty, self, other_ctor)
       IN /\ Len(out.arena) <= MaxArena
          /\ pattern_arena' = out.arena
          /\ pat_call' = [fn |-> "specialize", self |-> self, other_ctor |-> other_ctor,
                          panic |-> out.panic, ret |-> out.ret]
    /\ UNCHANGED <<ty, cx, ctor_set, OPAQUE_ID, ctors, present, missing, pc, cover>>
    /\ UNCHANGED opaqueVars
    /\ UNCHANGED arithVars
    /\ UNCHANGED intVars
    /\ UNCHANGED sliceVars

\* pattern_arena[self].set_reachable()
SetReachable(self) ==
    /\ pc = "lowered"
    /\ ~PatPanicked
    /\ pattern_arena' = set_reachable(pattern_arena, self)
    /\ pat_call' = [fn |-> "set_reachable", self |-> self]
    /\ UNCHANGED <<ty, cx, ctor_set, OPAQUE_ID, ctors, present, missing, pc, cover>>
    /\ UNCHANGED opaqueVars
    /\ UNCHANGED arithVars
    /\ UNCHANGED intVars
    /\ UNCHANGED sliceVars

\* pattern_arena[self].is_reachable(); `before` is the arena as the call found it.
IsReachable(self) ==
    /\ pc = "lowered"
    /\ ~PatPanicked
    /\ LET out == is_reachable(pattern_arena, self)
       IN /\ pattern_arena' = out.arena
          /\ pat_call' = [fn |-> "is_reachable", self |-> self, ret |-> out.ret,
                          before |-> pattern_arena]
    /\ UNCHANGED <<ty, cx, ctor_set, OPAQUE_ID, ctors, present, missing, pc, cover>>
    /\ UNCHANGED opaqueVars
    /\ UNCHANGED arithVars
    /\ UNCHANGED intVars
    /\ UNCHANGED sliceVars

\* pattern_arena[self].unreachable_spans(); `before` is the arena as the call found it.
UnreachableSpans(self) ==
    /\ pc = "lowered"
    /\ ~PatPanicked
    /\ LET out == unreachable_spans(pattern_arena, self)
       IN /\ pattern_arena' = out.arena
          /\ pat_call' = [fn |-> "unreachable_spans", self |-> self, ret |-> out.spans,
                          before |-> pattern_arena]
    /\ UNCHANGED <<ty, cx, ctor_set, OPAQUE_ID, ctors, present, missing, pc, cover>>
    /\ UNCHANGED opaqueVars
    /\ UNCHANGED arithVars
    /\ UNCHANGED intVars
    /\ UNCHANGED sliceVars

NextPat ==
    \/ FromPat
    \/ \E self \in 1..Len(pattern_arena) :
        \/ \E other_ctor \in CtorsFor(pattern_arena[self].ty) : Specialize(self, other_ctor)
        \/ SetReachable(self)
        \/ IsReachable(self)
        \/ UnreachableSpans(self)

SpecPat == InitPat /\ [][NextPat]_vars

(***************************************************************************)
(* Claims about specialize and the reachable flag                          *)
(***************************************************************************)
\* The last call is a call of specialize.
Specialized == pc = "lowered" /\ pat_call.fn = "specialize"

\* The call of specialize returned exactly other_ctor.arity(pcx) sub-patterns.
ReturnedArityMany ==
    /\ ~pat_call.panic
    /\ arity(pat_call.other_ctor, cx, pattern_arena[pat_call.self].ty)
            = Ok(Len(pat_call.ret))

C19_WitnessWildcard ==
    /\ Specialized
    /\ ty = StructPrivate
    /\ cx.exhaustive_patterns
    /\ pattern_arena[pat_call.self].ctor = Wildcard
    /\ pat_call.other_ctor = Single
    /\ Len(pat_call.ret) = 1

\* A slice pattern has been specialized to a slice of its own arity: its fields.
C19_WitnessEqualArity ==
    /\ Specialized
    /\ pattern_arena[pat_call.self].ctor = CtorSlice(Slice_new(None, FixedLen(2)))
    /\ pat_call.other_ctor = CtorSlice(Slice_new(None, FixedLen(2)))
    /\ pat_call.ret = pattern_arena[pat_call.self].fields
    /\ Len(pat_call.ret) = 2

\* Wildcard has been specialized with Or.
C19_WitnessOr ==
    /\ Specialized
    /\ pat_call.other_ctor = Or
    /\ pat_call.panic

\* C20: the reachable flag of a pattern is false when the pattern is created, and once it
\* is true it stays true through every call of set_reachable, is_reachable,
\* unreachable_spans and specialize on any pattern.
C20_ReachableIsWriteOnce ==
    [][/\ Len(pattern_arena') >= Len(pattern_arena)
       /\ \A i \in 1..Len(pattern_arena) :
            pattern_arena[i].reachable => pattern_arena'[i].reachable
       /\ \A i \in (Len(pattern_arena) + 1)..Len(pattern_arena') :
            ~pattern_arena'[i].reachable]_vars

\* specialize has been called on a pattern whose flag was set, has created a wildcard, and
\* the flag is still set.
C20_Witness ==
    /\ Specialized
    /\ pattern_arena[pat_call.self].reachable
    /\ \E i \in 1..Len(pat_call.ret) :
            /\ pattern_arena[pat_call.ret[i]].span = DUMMY_SP
            /\ ~pattern_arena[pat_call.ret[i]].reachable
    /\ \E i \in 1..Len(pattern_arena) :
            pattern_arena[i].ctor = Or /\ pattern_arena[i].reachable

(***************************************************************************)
(* Claims about is_reachable and unreachable_spans                         *)
(***************************************************************************)
\* The last call is a call of is_reachable on an or-pattern.
AskedOrPat ==
    /\ pc = "lowered"
    /\ pat_call.fn = "is_reachable"
    /\ pattern_arena[pat_call.self].ctor = Or

\* The pattern counts as reachable in `arena`: its flag is set, or it is an or-pattern one
\* of whose alternatives counts as reachable.
RECURSIVE CountsAsReachable(_, _)
CountsAsReachable(arena, self) ==
    \/ arena[self].reachable
    \/ /\ arena[self].ctor = Or
       /\ \E i \in 1..Len(arena[self].fields) : CountsAsReachable(arena, arena[self].fields[i])

\* Some alternative of the or-pattern counted as reachable when the call was made.
SomeAlternativeReachable ==
    \E i \in 1..Len(pat_call.before[pat_call.self].fields) :
        CountsAsReachable(pat_call.before, pat_call.before[pat_call.self].fields[i])

\* C21: if at least one alternative of an or-pattern is reachable, is_reachable on the
\* or-pattern returns true and leaves the or-pattern's own flag set; if no alternative is
\* reachable and the or-pattern's flag is unset, is_reachable returns false.
C21_OrPropagation ==
    AskedOrPat =>
        /\ SomeAlternativeReachable
                => (pat_call.ret /\ pattern_arena[pat_call.self].reachable)
        /\ (~SomeAlternativeReachable /\ ~pat_call.before[pat_call.self].reachable)
                => ~pat_call.ret

\* is_reachable has been called on an or-pattern whose flag was unset and whose last
\* alternative only was marked: it returned true and set the flag of the or-pattern.
C21_Witness ==
    /\ AskedOrPat
    /\ ~pat_call.before[pat_call.self].reachable
    /\ LET fields == pattern_arena[pat_call.self].fields
       IN /\ Len(fields) >= 2
          /\ \A i \in 1..(Len(fields) - 1) : ~pat_call.before[fields[i]].reachable
          /\ pat_call.before[fields[Len(fields)]].reachable
    /\ pat_call.ret
    /\ pattern_arena[pat_call.self].reachable

\* is_reachable has been called on an or-pattern none of whose alternatives was marked,
\* while another pattern of the arena was: it returned false.
C21_WitnessUnreachable ==
    /\ AskedOrPat
    /\ ~SomeAlternativeReachable
    /\ ~pat_call.before[pat_call.self].reachable
    /\ \E i \in 1..Len(pattern_arena) : pattern_arena[i].reachable
    /\ ~pat_call.ret

\* The last call is a call of unreachable_spans.
AskedSpans == pc = "lowered" /\ pat_call.fn = "unreachable_spans"

\* The spans of the patterns of the tree under `self` that do not count as reachable while
\* all the patterns above them do, in the order of the fields.
RECURSIVE TopmostUnreachable(_, _)
RECURSIVE TopmostUnreachableFrom(_, _, _)
TopmostUnreachable(arena, self) ==
    IF ~CountsAsReachable(arena, self) THEN <<arena[self].span>>
    ELSE TopmostUnreachableFrom(arena, arena[self].fields, 1)

TopmostUnreachableFrom(arena, fields, i) ==
    IF i > Len(fields) THEN <<>>
    ELSE TopmostUnreachable(arena, fields[i]) \o TopmostUnreachableFrom(arena, fields, i + 1)

\* The spans of the patterns without fields under `self` whose flag is unset, the fields of
\* a pattern that counts as reachable being skipped.
RECURSIVE UnsetLeaves(_, _)
RECURSIVE UnsetLeavesFrom(_, _, _)
UnsetLeaves(arena, self) ==
    IF arena[self].fields = <<>>
    THEN (IF arena[self].reachable THEN <<>> ELSE <<arena[self].span>>)
    ELSE IF CountsAsReachable(arena, self) THEN <<>>
    ELSE UnsetLeavesFrom(arena, arena[self].fields, 1)

UnsetLeavesFrom(arena, fields, i) ==
    IF i > Len(fields) THEN <<>>
    ELSE UnsetLeaves(arena, fields[i]) \o UnsetLeavesFrom(arena, fields, i + 1)

\* C22 as stated: unreachable_spans yields the spans of the leaf patterns whose flag never
\* got set, skipping the children of reachable parents.
C22_AsStated ==
    AskedSpans => pat_call.ret = UnsetLeaves(pat_call.before, pat_call.self)

\* C22, amended: unreachable_spans yields, in field order, the span of every pattern, leaf
\* or not, that is not reachable while all the patterns above it are; it visits the fields
\* of reachable patterns and skips the fields of unreachable ones.
C22_TopmostUnreachableSpans ==
    AskedSpans => pat_call.ret = TopmostUnreachable(pat_call.before, pat_call.self)

\* unreachable_spans has been called on a marked pattern with an unmarked or-pattern among
\* its fields: it went into the fields and yielded the span of the whole or-pattern.
C22_Witness ==
    /\ AskedSpans
    /\ pat_call.before[pat_call.self].reachable
    /\ \E i \in 1..Len(pattern_arena[pat_call.self].fields) :
            LET f == pattern_arena[pat_call.self].fields[i]
            IN /\ pattern_arena[f].ctor = Or
               /\ ~CountsAsReachable(pat_call.before, f)
               /\ \E k \in 1..Len(pat_call.ret) : pat_call.ret[k] = pattern_arena[f].span
    /\ Len(pat_call.ret) >= 2

\* unreachable_spans has been called on an or-pattern one alternative of which was marked:
\* it yielded the span of the other alternative.
C22_WitnessOr ==
    /\ AskedSpans
    /\ pattern_arena[pat_call.self].ctor = Or
    /\ Len(pattern_arena[pat_call.self].fields) = 2
    /\ pat_call.before[pattern_arena[pat_call.self].fields[1]].reachable
    /\ pat_call.ret = <<pattern_arena[pattern_arena[pat_call.self].fields[2]].span>>

(***************************************************************************)
(* Claims about the fields of a variant                                    *)
(***************************************************************************)
\* A wildcard of a struct or enum type has been specialized with the constructor of one
\* of the variants: specialize has listed the fields of the variant and made a wildcard
\* for each field it keeps.
ListedFields ==
    /\ Specialized
    /\ pattern_arena[pat_call.self].ctor = Wildcard
    /\ pat_call.other_ctor.tag \in {"Single", "Variant"}
    /\ ty.kind = "Adt"
    /\ ~ty.is_box
    /\ ~pat_call.panic

\* The variant whose fields have been listed.
ListedVariant == ty.variants[variant_index_for_adt(pat_call.other_ctor, ty)[1] + 1]

\* The four conditions the policy speaks of, for a field of the listed variant.
FieldNonExhaustive == ListedVariant.is_field_list_non_exhaustive
FieldForeign == ~ty.is_local
FieldUninhabited(field) == is_uninhabited(cx, field.ty)
FieldVisible(field) == ty.is_enum \/ field.is_visible

\* The types of the wildcards specialize has returned.
ListedTys == [i \in 1..Len(pat_call.ret) |-> pattern_arena[pat_call.ret[i]].ty]

\* The types of the fields of the listed variant, those for which Dropped holds left out.
KeptTys(Dropped(_)) ==
    LET Kept(field) == ~Dropped(field)
        kept == SelectSeq(ListedVariant.fields, Kept)
    IN [i \in 1..Len(kept) |-> kept[i].ty]

\* C23 as stated: a field is dropped exactly when the variant is field-list-non-exhaustive
\* and foreign and the field is uninhabited and private; in every other combination the
\* field is kept, and Constructor::arity counts it.
C23_AsStated ==
    ListedFields =>
        LET Dropped(field) ==
                /\ FieldNonExhaustive
                /\ FieldForeign
                /\ FieldUninhabited(field)
                /\ ~FieldVisible(field)
        IN /\ ListedTys = KeptTys(Dropped)
           /\ arity(pat_call.other_ctor, cx, ty) = Ok(Len(KeptTys(Dropped)))

\* C23, amended: a field is dropped exactly when it is uninhabited and either it is not
\* visible or the variant is field-list-non-exhaustive and foreign; every other field is
\* kept, and Constructor::arity counts it.
C23_FieldVisibilityPolicy ==
    ListedFields =>
        LET Dropped(field) ==
                /\ FieldUninhabited(field)
                /\ (~FieldVisible(field) \/ (FieldNonExhaustive /\ FieldForeign))
        IN /\ ListedTys = KeptTys(Dropped)
           /\ arity(pat_call.other_ctor, cx, ty) = Ok(Len(KeptTys(Dropped)))

\* The fields of a local struct with an exhaustive field list have been listed under
\* exhaustive_patterns: the private field of type `!` is dropped, the public one is kept.
C23_Witness ==
    /\ ListedFields
    /\ ty \in PolicyStructs
    /\ ~FieldNonExhaustive
    /\ ~FieldForeign
    /\ cx.exhaustive_patterns
    /\ ListedTys = <<TyNever, TyBool, TyBool>>

\* The fields of a foreign struct with a #[non_exhaustive] field list have been listed
\* under exhaustive_patterns: the public field of type `!` is dropped as well.
C23_WitnessForeign ==
    /\ ListedFields
    /\ ty \in PolicyStructs
    /\ FieldNonExhaustive
    /\ FieldForeign
    /\ cx.exhaustive_patterns
    /\ ListedTys = <<TyBool, TyBool>>

\* The fields of the variant of a foreign enum have been listed without
\* exhaustive_patterns: every field is kept.
C23_WitnessKept ==
    /\ ListedFields
    /\ ty = EnumForeignFields
    /\ ~cx.exhaustive_patterns
    /\ ListedTys = <<TyNever, TyBool>>

(***************************************************************************)
(* Claims about what Slice::split emits                                    *)
(***************************************************************************)
\* A variable-length `self` has been split.
SplitOfVarLen == slice_pc = "split" /\ slice_self.kind.tag = "VarLen"

\* The largest number of a finite non-empty set of naturals.
Largest(S) == CHOOSE x \in S : \A y \in S : y <= x

\* max_fixed_len, max_prefix_len and max_suffix_len over the column, the prefix and the
\* suffix starting from those of `self`.
ColumnMaxFixedLen ==
    Largest({0} \cup {column_slices[i].kind.len :
                        i \in {j \in 1..Len(column_slices) :
                                    column_slices[j].kind.tag = "FixedLen"}})
ColumnMaxPrefixLen ==
    Largest({slice_self.kind.prefix} \cup
            {column_slices[i].kind.prefix :
                i \in {j \in 1..Len(column_slices) : column_slices[j].kind.tag = "VarLen"}})
ColumnMaxSuffixLen ==
    Largest({slice_self.kind.suffix} \cup
            {column_slices[i].kind.suffix :
                i \in {j \in 1..Len(column_slices) : column_slices[j].kind.tag = "VarLen"}})

\* L = max(max_fixed_len + 1, max_prefix_len + max_suffix_len)
ColumnL ==
    Largest({ColumnMaxFixedLen + 1, ColumnMaxPrefixLen + ColumnMaxSuffixLen})

\* The kinds of the emitted constructors, in order.
EmittedKinds == [i \in 1..Len(split_slices) |-> split_slices[i].slice.kind]

\* The emitted kinds are FixedLen(k) for each k in [self.arity, L) in increasing order,
\* followed by a VarLen of arity L with the largest suffix of the column.
SmallerLengthsThenMaxSlice ==
    LET n == ColumnL - Slice_arity(slice_self)
    IN /\ Len(split_slices) = n + 1
       /\ \A i \in 1..n : EmittedKinds[i] = FixedLen(Slice_arity(slice_self) + i - 1)
       /\ EmittedKinds[n + 1] = VarLen(ColumnL - ColumnMaxSuffixLen, ColumnMaxSuffixLen)

\* C24 as stated: for a VarLen `self`, if array_len = Some(n) and L >= n only FixedLen(n)
\* is emitted; otherwise split emits FixedLen(k) for each k in [self.arity, L) in
\* increasing order, followed by the VarLen max_slice of arity L.
C24_AsStated ==
    SplitOfVarLen =>
        IF slice_self.array_len # None /\ ColumnL >= slice_self.array_len[1]
        THEN EmittedKinds = <<FixedLen(slice_self.array_len[1])>>
        ELSE SmallerLengthsThenMaxSlice

\* C24, amended: on an array type only one constructor is emitted, FixedLen(n) if L >= n
\* and the VarLen max_slice of arity L otherwise; on a slice type split emits FixedLen(k)
\* for each k in [self.arity, L) in increasing order, followed by the VarLen max_slice of
\* arity L.
C24_VarLenEmission ==
    SplitOfVarLen =>
        IF slice_self.array_len # None
        THEN IF ColumnL >= slice_self.array_len[1]
             THEN EmittedKinds = <<FixedLen(slice_self.array_len[1])>>
             ELSE EmittedKinds = <<VarLen(ColumnL - ColumnMaxSuffixLen, ColumnMaxSuffixLen)>>
        ELSE SmallerLengthsThenMaxSlice

\* [..] of a slice type has been split by the column {[_, _, ..], [.., _, _]}: fixed
\* lengths 0, 1, 2, 3, then VarLen(2, 2).
C24_Witness ==
    /\ SplitOfVarLen
    /\ slice_self = Slice_new(None, VarLen(0, 0))
    /\ column_slices = <<Slice_new(None, VarLen(2, 0)), Slice_new(None, VarLen(0, 2))>>
    /\ EmittedKinds = <<FixedLen(0), FixedLen(1), FixedLen(2), FixedLen(3), VarLen(2, 2)>>

\* [..] of an array type of length 2 has been split by the column {[_, ..]}: L = 1 is
\* below the length, and only VarLen(1, 0) is emitted.
C24_WitnessArray ==
    /\ SplitOfVarLen
    /\ slice_self = Slice_new(Some(2), VarLen(0, 0))
    /\ column_slices = <<Slice_new(Some(2), VarLen(1, 0))>>
    /\ EmittedKinds = <<VarLen(1, 0)>>

\* The arity is the length of some FixedLen slice of the column.
IsFixedLenOfColumn(n) ==
    \E j \in 1..Len(column_slices) :
        column_slices[j].kind.tag = "FixedLen" /\ column_slices[j].kind.len = n

\* The arity is at least the smallest prefix + suffix of the VarLen slices of the column.
ReachesVarLenOfColumn(n) ==
    \E j \in 1..Len(column_slices) :
        /\ column_slices[j].kind.tag = "VarLen"
        /\ column_slices[j].kind.prefix + column_slices[j].kind.suffix <= n

\* C25: an emitted slice constructor is tagged Seen if and only if its arity equals the
\* length of some FixedLen slice of the column or is >= the smallest prefix + suffix of a
\* VarLen slice of the column; equivalently, iff it is covered (is_covered_by) by at least
\* one column slice. Otherwise it is Unseen.
C25_SeenIffCoveredByColumn ==
    slice_pc = "split" =>
        \A i \in 1..Len(split_slices) :
            LET emitted == split_slices[i].slice
                stated == \/ IsFixedLenOfColumn(Slice_arity(emitted))
                          \/ ReachesVarLenOfColumn(Slice_arity(emitted))
            IN /\ split_slices[i].presence \in {Seen, Unseen}
               /\ split_slices[i].presence = Seen <=> stated
               /\ stated <=> \E j \in 1..Len(column_slices) :
                                Slice_is_covered_by(emitted, column_slices[j])

\* [..] has been split by a column with a FixedLen and a longer VarLen: a shorter fixed
\* length is Unseen, the length of the FixedLen is Seen, the final VarLen is Seen.
C25_Witness ==
    /\ slice_pc = "split"
    /\ slice_self = Slice_new(None, VarLen(0, 0))
    /\ \E i \in 1..Len(split_slices) :
            /\ split_slices[i].presence = Seen
            /\ IsFixedLenOfColumn(Slice_arity(split_slices[i].slice))
            /\ ~ReachesVarLenOfColumn(Slice_arity(split_slices[i].slice))
    /\ \E i \in 1..Len(split_slices) : split_slices[i].presence = Unseen
    /\ split_slices[Len(split_slices)].presence = Seen
    /\ split_slices[Len(split_slices)].slice.kind.tag = "VarLen"

(***************************************************************************)
(* Claims about ConstructorSet::split on Variants                          *)
(***************************************************************************)
\* A column of an enum type has been split.
SplitOfVariants == pc = "split" /\ ctor_set.tag = "Variants"

\* The elements of a sequence.
Elems(seq) == {seq[i] : i \in 1..Len(seq)}

\* C26: each visible variant goes to `present` if its index occurs in the column and to
\* `missing` otherwise; each hidden variant goes to `present` if it occurs in the column
\* and is otherwise left out; `Hidden` is appended to `missing` exactly when at least one
\* hidden variant does not occur in the column; `NonExhaustive` is appended to `missing`
\* exactly when the set is non_exhaustive.
C26_VariantsSplit ==
    SplitOfVariants =>
        LET InColumn(v) == Variant(v) \in Elems(ctors)
        IN /\ \A v \in Elems(ctor_set.visible_variants) :
                /\ Variant(v) \in Elems(present) <=> InColumn(v)
                /\ Variant(v) \in Elems(missing) <=> ~InColumn(v)
           /\ \A v \in Elems(ctor_set.hidden_variants) :
                /\ Variant(v) \in Elems(present) <=> InColumn(v)
                /\ Variant(v) \notin Elems(missing)
           /\ Hidden \in Elems(missing)
                <=> \E v \in Elems(ctor_set.hidden_variants) : ~InColumn(v)
           /\ NonExhaustive \in Elems(missing) <=> ctor_set.non_exhaustive
           /\ missing # <<>> /\ missing[Len(missing)] # NonExhaustive
                => ~ctor_set.non_exhaustive

\* enum { A, B, C, D } with the column {A}: present = {A}, missing = {B, C, D}.
C26_Witness ==
    /\ SplitOfVariants
    /\ ty = Enum4
    /\ ctors = <<Variant(0)>>
    /\ present = <<Variant(0)>>
    /\ missing = <<Variant(1), Variant(2), Variant(3)>>

\* A foreign #[non_exhaustive] enum with hidden variants, one of them in the column: it is
\* present, and Hidden and NonExhaustive are missing.
C26_WitnessHidden ==
    /\ SplitOfVariants
    /\ ctor_set.non_exhaustive
    /\ \E v \in Elems(ctor_set.hidden_variants) : Variant(v) \in Elems(present)
    /\ Hidden \in Elems(missing)
    /\ missing[Len(missing)] = NonExhaustive

(***************************************************************************)
(* Claims about the number of ranges IntRange::split emits                 *)
(***************************************************************************)
\* The endpoints of the column ranges that lie strictly inside `self`.
ColumnEndpointsInside ==
    {b \in {c.lo : c \in ColumnRangeSet} \cup {c.hi : c \in ColumnRangeSet} :
        MaybeInfiniteInt_lt(range_self.lo, b) /\ MaybeInfiniteInt_lt(b, range_self.hi)}

\* C27: IntRange::split produces the minimum number of boundaries: every point where one
\* emitted range ends and the next begins is an endpoint of some column range, merging
\* any two adjacent emitted ranges would make the merged range straddle a column
\* boundary, and there are as many emitted ranges as the column endpoints inside `self`
\* require.
C27_MinimumBoundaries ==
    int_pc = "split" =>
        /\ \A i \in 1..(Len(split_ranges) - 1) :
                LET merged == IntRange(split_ranges[i].range.lo, split_ranges[i + 1].range.hi)
                IN /\ split_ranges[i].range.hi \in ColumnEndpointsInside
                   /\ \E c \in ColumnRangeSet :
                        ~(RangeInside(merged, c) \/ RangesDisjoint(merged, c))
        /\ Len(split_ranges) = Cardinality(ColumnEndpointsInside) + 1

\* A split by a column of two ranges that share an endpoint inside `self` and have
\* another endpoint outside it: the shared endpoint makes one boundary, the outer none.
C27_Witness ==
    /\ int_pc = "split"
    /\ Len(column_ranges) >= 2
    /\ \E c, d \in ColumnRangeSet :
            /\ c # d
            /\ c.hi = d.lo
            /\ c.hi \in ColumnEndpointsInside
            /\ MaybeInfiniteInt_lt(c.lo, range_self.lo)
    /\ Len(split_ranges) >= 3

(***************************************************************************)
(* Claims about ConstructorSet::for_ty                                     *)
(***************************************************************************)
\* What cx.is_uninhabited answers about the type of the column as a whole: an array is
\* uninhabited when its length is known and not zero and its elements are uninhabited, a
\* slice never is, a foreign #[non_exhaustive] enum never is.
TypeIsUninhabited ==
    CASE ty.kind = "Array" -> ty.len # None /\ ty.len[1] # 0 /\ is_uninhabited_elem(cx, ty)
      [] ty.kind = "Slice" -> FALSE
      [] ty.kind = "Adt" /\ ty.is_enum -> ~ty.foreign_non_exhaustive /\ is_uninhabited(cx, ty)
      [] OTHER -> is_uninhabited(cx, ty)

\* C28: ConstructorSet::for_ty returns Uninhabited if and only if the type is uninhabited
\* as determined by cx.is_uninhabited, for every kind of type.
C28_UninhabitedIffQuery ==
    pc \in {"column", "split"} =>
        (ctor_set = ConstructorSet_Uninhabited <=> TypeIsUninhabited)

\* for_ty has answered with a set of variants that lists no variant for an enum that
\* cx.is_uninhabited finds uninhabited.
C28_WitnessEnum ==
    /\ pc \in {"column", "split"}
    /\ ty = EnumOfNever
    /\ cx.exhaustive_patterns
    /\ TypeIsUninhabited
    /\ ctor_set = ConstructorSet_Variants(<<>>, <<>>, FALSE)

\* for_ty has answered Uninhabited for `!` although cx.is_uninhabited, without
\* exhaustive_patterns, answers false.
C28_WitnessNever ==
    /\ pc \in {"column", "split"}
    /\ ty = TyNever
    /\ ~cx.exhaustive_patterns
    /\ ~TypeIsUninhabited
    /\ ctor_set = ConstructorSet_Uninhabited

\* for_ty and cx.is_uninhabited agree on every type that is not an enum, under
\* exhaustive_patterns.
C28_AgreeOffEnums ==
    (pc \in {"column", "split"} /\ cx.exhaustive_patterns /\ ~(ty.kind = "Adt" /\ ty.is_enum))
        => (ctor_set = ConstructorSet_Uninhabited <=> TypeIsUninhabited)

(***************************************************************************)
(* Claims about from_pat on or-patterns                                    *)
(***************************************************************************)
\* from_pat has just lowered a front-end or-pattern.
LoweredOrPat ==
    /\ pc = "lowered"
    /\ pat_call.fn = "from_pat"
    /\ pat_call.pat.kind = "Or"

\* The alternatives of a front-end or-pattern, those of the or-patterns directly among
\* them included in their place.
RECURSIVE Alternatives(_)
RECURSIVE AlternativesFrom(_, _)
Alternatives(pat) ==
    IF pat.kind = "Or" THEN AlternativesFrom(pat.pats, 1) ELSE <<pat>>
AlternativesFrom(pats, i) ==
    IF i > Len(pats) THEN <<>> ELSE Alternatives(pats[i]) \o AlternativesFrom(pats, i + 1)

\* The pattern under the bindings and type ascriptions that wrap it.
RECURSIVE Unwrapped(_)
Unwrapped(pat) ==
    CASE pat.kind \in {"AscribeUserType", "InlineConstant"} -> Unwrapped(pat.subpattern)
      [] pat.kind = "Binding" /\ pat.subpattern # None -> Unwrapped(pat.subpattern[1])
      [] OTHER -> pat

\* The constructors of the fields of the pattern from_pat has returned.
LoweredFieldCtors ==
    [i \in 1..Len(pattern_arena[pat_call.self].fields) |->
        pattern_arena[pattern_arena[pat_call.self].fields[i]].ctor]

\* C29 as stated: for any front-end or-pattern, however nested and however its
\* alternatives are wrapped in bindings or type ascriptions, the result of from_pat has
\* constructor Or and none of its fields has constructor Or.
C29_AsStated ==
    LoweredOrPat =>
        /\ pattern_arena[pat_call.self].ctor = Or
        /\ \A i \in 1..Len(LoweredFieldCtors) : LoweredFieldCtors[i] # Or

\* C29, amended: for any front-end or-pattern the result of from_pat has constructor Or
\* and one field for each alternative, the alternatives of the or-patterns directly among
\* them taken in their place; a field has constructor Or exactly when its alternative is
\* an or-pattern wrapped in bindings or type ascriptions, which expand_or_pat does not
\* look through.
C29_OrPatFlattening ==
    LoweredOrPat =>
        LET alts == Alternatives(pat_call.pat)
        IN /\ pattern_arena[pat_call.self].ctor = Or
           /\ Len(LoweredFieldCtors) = Len(alts)
           /\ \A i \in 1..Len(alts) :
                /\ alts[i].kind # "Or"
                /\ LoweredFieldCtors[i] = Or <=> Unwrapped(alts[i]).kind = "Or"

\* true | (false | _) has been lowered: an Or with three fields, none of them an Or.
C29_Witness ==
    /\ LoweredOrPat
    /\ \E i \in 1..Len(pat_call.pat.pats) : pat_call.pat.pats[i].kind = "Or"
    /\ pattern_arena[pat_call.self].ctor = Or
    /\ Len(LoweredFieldCtors) = 3
    /\ \A i \in 1..3 : LoweredFieldCtors[i] # Or

\* An or-pattern with an alternative x @ (false | _) has been lowered: the field of that
\* alternative has constructor Or.
C29_WitnessWrapped ==
    /\ LoweredOrPat
    /\ \E i \in 1..Len(pat_call.pat.pats) :
            /\ pat_call.pat.pats[i].kind = "Binding"
            /\ LoweredFieldCtors[i] = Or

(***************************************************************************)
(* Claims about repeated calls of is_reachable and unreachable_spans       *)
(***************************************************************************)
\* The last call is a call of is_reachable or of unreachable_spans.
AskedReachability == pc = "lowered" /\ pat_call.fn \in {"is_reachable", "unreachable_spans"}

\* What the same call, made once more now, returns, and the arena it leaves.
AskedAgain ==
    IF pat_call.fn = "is_reachable"
    THEN is_reachable(pattern_arena, pat_call.self)
    ELSE LET again == unreachable_spans(pattern_arena, pat_call.self)
         IN [arena |-> again.arena, ret |-> again.spans]

\* C30: calling unreachable_spans or is_reachable twice on the same pattern tree with no
\* set_reachable in between returns the same result both times, and the only flags these
\* calls change are those of or-patterns that have a reachable alternative, which go
\* from false to true.
C30_AskingIsIdempotent ==
    AskedReachability =>
        /\ AskedAgain.ret = pat_call.ret
        /\ AskedAgain.arena = pattern_arena
        /\ Len(pattern_arena) = Len(pat_call.before)
        /\ \A i \in 1..Len(pattern_arena) :
                /\ [pattern_arena[i] EXCEPT !.reachable = pat_call.before[i].reachable]
                        = pat_call.before[i]
                /\ pattern_arena[i].reachable # pat_call.before[i].reachable
                        => /\ ~pat_call.before[i].reachable
                           /\ pattern_arena[i].reachable
                           /\ pattern_arena[i].ctor = Or
                           /\ \E k \in 1..Len(pattern_arena[i].fields) :
                                CountsAsReachable(pat_call.before, pattern_arena[i].fields[k])

\* unreachable_spans has been called on a tree in which it has set the flag of an
\* or-pattern, and has yielded a span.
C30_Witness ==
    /\ AskedReachability
    /\ pat_call.fn = "unreachable_spans"
    /\ pat_call.before # pattern_arena
    /\ pat_call.ret # <<>>

\* is_reachable has been called on a pattern whose flags the previous call, of
\* is_reachable too, had already propagated: nothing is left to change.
C30_WitnessIsReachable ==
    /\ AskedReachability
    /\ pat_call.fn = "is_reachable"
    /\ pat_call.before = pattern_arena
    /\ pattern_arena[pat_call.self].ctor = Or
    /\ pat_call.ret
====
